---- MODULE Spec2Model ----
(***************************************************************************)
(* A model of the habit-heatmap plugin: the calendar utilities and range   *)
(* resolution (renderer), the markdown habit parser (parser.ts), the file  *)
(* selection and aggregation of a scan and the mtime parse cache           *)
(* (scanner.ts), and the vault event handlers (main.ts).                   *)
(*                                                                         *)
(* Each component has its own specification (SpecRange, SpecParse, ...);   *)
(* a specification leaves the variables of the other components at their   *)
(* idle values.                                                            *)
(***************************************************************************)
EXTENDS Integers, Sequences, FiniteSets, TLC

VARIABLES
  \* range resolution (renderer: resolveRange and the Date utilities)
  timezone,      \* the host's local time zone (environment)
  rangeConfig,   \* NormalizedConfig.range handed to resolveRange
  basename,      \* file.basename of the current note, as the title regex sees it
  rangeResult,   \* what resolveRange returned, or Pending
  \* parseMarkdownHabits (parser.ts), one call
  lines,               \* the lines of the content the loop has read, in order
  activeDate,          \* let activeDate
  accumulators,        \* date -> habit -> DateAccumulator
  headingLinesByDate,  \* date -> line numbers of its headings
  parsed,              \* the ParsedFileData returned, or Pending
  \* the vault (environment) and HabitScanner (scanner.ts)
  vaultFiles,        \* path -> [mtime, content]: TFile.stat.mtime and what cachedRead gives
  markdownFiles,     \* vault.getMarkdownFiles(): the paths, in the vault's order
  cache,             \* HabitScanner.cache: path -> CacheEntry
  parseCount,        \* how many times cachedRead + parseMarkdownHabits have run
  invalidated,       \* path -> the entry invalidatePath took away (Null if none), for
                     \* the paths not handed to getParsedFile since
  lastCall,          \* the latest operation on the cache, with what it saw and did
  \* one call of HabitScanner.scan
  currentFile,       \* scan's argument currentFile (its path), empty when there is no call
  range,             \* scan's argument range
  scanPc,            \* where the call is: "start", "loop" (files selected), "done"
  files,             \* const files
  position,          \* how many of files the loop has been through
  aggregates,        \* habit -> date -> AggregateBucket
  candidatesByDate,  \* date -> ScanCandidate[]
  habitsFound,       \* Set of habit names
  scanResult,        \* the ScanResult returned, or Pending
  \* normalizeConfig (renderer), one call
  rawConfig,         \* the HeatmapBlockConfig handed to normalizeConfig
  configResult,      \* what normalizeConfig returned (or that it threw), or Pending
  numericValue,      \* the value handed to resolveNumericColor, or Null
  numericColor,      \* the color resolveNumericColor returned for it
  \* HabitHeatmapRenderer.render, one call
  source,            \* the text of the code block, as what decoding it gives
  sourceFile,        \* what getAbstractFileByPath(ctx.sourcePath) gives
  renderPc,          \* where the call is
  decoded,           \* const parsed = parseConfig(source), or Pending
  shown,             \* what the call has put into el, or Pending
  \* findNearestHeading (renderer), one call
  nearestContent,    \* the lines of what cachedRead(file) gave
  nearestDate,       \* the argument date
  nearestResult,     \* the ScanCandidate returned, Null for null, or Pending
  \* calls of HabitScanner.scan in progress at once
  scans,             \* call -> where it is and what it holds
  stores,            \* every cache.set so far: the path, the mtime and the parse set
  unstored,          \* the paths read for since the last cache.set on them
  \* HabitHeatmapPlugin (main.ts) and the window's timers
  loaded,            \* onload has run and onunload has not
  refreshTimer,      \* private refreshTimer: the id setTimeout gave, or Null
  timeouts,          \* the ids of the window's timeouts that have not run nor been cleared
  timerCount,        \* how many times setTimeout has been called
  refreshes,         \* how many times the timeout's callback has refreshed the previews
  eventCount,        \* how many vault events there have been
  unrefreshed,       \* how many of them since the latest refresh
  lastEvent,         \* the latest vault event: which one and for which file, or Null
  written            \* path -> the contents the note has had, the one of mtime m at m

rangeVars == <<timezone, rangeConfig, basename, rangeResult>>
parseVars == <<lines, activeDate, accumulators, headingLinesByDate, parsed>>

vaultVars == <<vaultFiles, markdownFiles>>
cacheVars == <<cache, parseCount, invalidated, lastCall>>
scanVars == <<currentFile, range, scanPc, files, position, aggregates, candidatesByDate,
              habitsFound, scanResult>>

configVars == <<rawConfig, configResult, numericValue, numericColor>>
renderVars == <<source, sourceFile, renderPc, decoded, shown>>
nearestVars == <<nearestContent, nearestDate, nearestResult>>
callVars == <<scans, stores, unstored>>
pluginVars == <<loaded, refreshTimer, timeouts, timerCount, refreshes, eventCount,
                unrefreshed, lastEvent, written>>
laterVars == <<nearestVars, callVars, pluginVars>>
otherVars == <<configVars, renderVars, laterVars>>

vars == <<rangeVars, parseVars, vaultVars, cacheVars, scanVars, otherVars>>

\* JavaScript's null / undefined, and "not called yet".
Null == [null |-> TRUE]
Undefined == [undefined |-> TRUE]
Pending == [pending |-> TRUE]

\* A JavaScript number that is an integer; other values are tagged records.
JsInt(n) == [int |-> n]
IsJsInt(v) == "int" \in DOMAIN v

\* The other values a decoded configuration holds: booleans and strings (a
\* string is its text, or the sequence of its characters where they matter)
Bool(b) == [bool |-> b]
Str(text) == [str |-> text]

(***************************************************************************)
(* JavaScript numbers: IEEE 754 binary64, for the finite numbers that are  *)
(* not negative.  An integer below 2^30 is JsInt(n); any other number is   *)
(* Binary64(hi, lo, exp), which is (hi * 2^26 + lo) * 2^exp with a         *)
(* significand of 53 bits (2^26 <= hi < 2^27, lo < 2^26).  The exponent is *)
(* not limited: the numbers of the model are far from the largest and the  *)
(* smallest binary64.                                                      *)
(***************************************************************************)

SignificandBits == 53
HighBits == 27
LowBits == 26
IntBits == 30

TwoTo(k) == 2^k
Binary64(hi, lo, exp) == [hi |-> hi, lo |-> lo, exp |-> exp]

\* The number of bits of a positive integer below 2^30
BitLength(n) == CHOOSE k \in 1..IntBits : TwoTo(k - 1) <= n /\ n < TwoTo(k)

\* A positive integer of len bits with its significand widened to 53 bits
WidenedInt(n, len) ==
  IF len > HighBits
  THEN Binary64(n \div TwoTo(len - HighBits),
                (n % TwoTo(len - HighBits)) * TwoTo(SignificandBits - len),
                len - SignificandBits)
  ELSE Binary64(n * TwoTo(HighBits - len), 0, len - SignificandBits)

Widened(x) == IF IsJsInt(x) THEN WidenedInt(x.int, BitLength(x.int)) ELSE x

\* Whether a widened number is an integer below 2^30, and that integer
IsSmallInteger(x) ==
  /\ -x.exp >= SignificandBits - IntBits
  /\ -x.exp < SignificandBits
  /\ IF -x.exp <= LowBits THEN x.lo % TwoTo(-x.exp) = 0
     ELSE x.lo = 0 /\ x.hi % TwoTo(-x.exp - LowBits) = 0
SmallInteger(x) ==
  IF -x.exp <= LowBits
  THEN x.hi * TwoTo(LowBits + x.exp) + x.lo \div TwoTo(-x.exp)
  ELSE x.hi \div TwoTo(-x.exp - LowBits)

Narrowed(x) == IF IsSmallInteger(x) THEN JsInt(SmallInteger(x)) ELSE x

\* y's significand divided by 2^d, 0 <= d <= 53: quotient and remainder, each
\* as hi * 2^26 + lo
Quotient(y, d) ==
  IF d = 0 THEN [hi |-> y.hi, lo |-> y.lo]
  ELSE IF d <= LowBits
  THEN [hi |-> y.hi \div TwoTo(d),
        lo |-> (y.hi % TwoTo(d)) * TwoTo(LowBits - d) + y.lo \div TwoTo(d)]
  ELSE [hi |-> 0, lo |-> y.hi \div TwoTo(d - LowBits)]
Remainder(y, d) ==
  IF d = 0 THEN [hi |-> 0, lo |-> 0]
  ELSE IF d <= LowBits THEN [hi |-> 0, lo |-> y.lo % TwoTo(d)]
  ELSE [hi |-> y.hi % TwoTo(d - LowBits), lo |-> y.lo]

\* 2^(d-1), half of the unit the remainder is a fraction of, 1 <= d <= 53
Half(d) ==
  IF d - 1 < LowBits THEN [hi |-> 0, lo |-> TwoTo(d - 1)]
  ELSE [hi |-> TwoTo(d - 1 - LowBits), lo |-> 0]

Less(a, b) == a.hi < b.hi \/ (a.hi = b.hi /\ a.lo < b.lo)

\* Where the part shifted out lies between two neighbouring significands
Fraction(r, d) ==
  IF r.hi = 0 /\ r.lo = 0 THEN "none"
  ELSE IF Less(r, Half(d)) THEN "below half"
  ELSE IF Less(Half(d), r) THEN "above half"
  ELSE "half"

\* The sum of two significands, up to 54 bits
PairSum(a, b) ==
  [hi |-> a.hi + b.hi + (a.lo + b.lo) \div TwoTo(LowBits),
   lo |-> (a.lo + b.lo) % TwoTo(LowBits)]

\* The next significand; after the last one of 53 bits comes 2^52 with the
\* exponent one higher
Increased(hi, lo, exp) ==
  IF lo + 1 < TwoTo(LowBits) THEN Binary64(hi, lo + 1, exp)
  ELSE IF hi + 1 < TwoTo(HighBits) THEN Binary64(hi + 1, 0, exp)
  ELSE Binary64(TwoTo(HighBits - 1), 0, exp + 1)

\* Round to nearest, ties to even, of a sum of at most 53 bits
RoundedShort(s, fraction, exp) ==
  IF fraction = "above half" \/ (fraction = "half" /\ s.lo % 2 = 1)
  THEN Increased(s.hi, s.lo, exp)
  ELSE Binary64(s.hi, s.lo, exp)

\* The same of a sum of 54 bits: its last bit is shifted out as well
RoundedLong(hi, lo, last, fraction, exp) ==
  IF last = 1 /\ (fraction # "none" \/ lo % 2 = 1)
  THEN Increased(hi, lo, exp)
  ELSE Binary64(hi, lo, exp)

Rounded(s, fraction, exp) ==
  IF s.hi < TwoTo(HighBits) THEN RoundedShort(s, fraction, exp)
  ELSE RoundedLong(s.hi \div 2, (s.hi % 2) * TwoTo(LowBits - 1) + s.lo \div 2,
                   s.lo % 2, fraction, exp + 1)

\* x + y of two widened numbers with x.exp >= y.exp
SumOfWidened(x, y, d) ==
  IF d > SignificandBits THEN x
  ELSE Rounded(PairSum(x, Quotient(y, d)), Fraction(Remainder(y, d), d), x.exp)

SumOfOrdered(x, y) ==
  IF x.exp >= y.exp THEN SumOfWidened(x, y, x.exp - y.exp)
  ELSE SumOfWidened(y, x, y.exp - x.exp)

\* a + b of two numbers
NumberAdd(a, b) ==
  IF a = JsInt(0) THEN b
  ELSE IF b = JsInt(0) THEN a
  ELSE Narrowed(SumOfOrdered(Widened(a), Widened(b)))

\* Number("0.1"), Number("0.2"), Number("0.3")
OneTenth == Binary64(107374182, 26843546, -56)
TwoTenths == Binary64(107374182, 26843546, -55)
ThreeTenths == Binary64(80530636, 53687091, -54)

(***************************************************************************)
(* The host's Date object.  A Date built by new Date(y, m, d) is a local   *)
(* midnight; it is modelled by its local civil day number (days since      *)
(* 1970-01-01) and getTime() adds the zone's offset on that day.           *)
(***************************************************************************)

\* Time is counted in minutes: one day is 86400000 ms = 1440 min.
MinutesPerDay == 1440
\* The shift of a daylight-saving transition, in minutes.
DstShiftMinutes == 60

\* Days since 1970-01-01 of a civil date, with the year counted from March.
DaysFromShifted(yy, mp, d) ==
  (yy \div 400) * 146097 + (yy % 400) * 365 + (yy % 400) \div 4 - (yy % 400) \div 100
  + (153 * mp + 2) \div 5 + d - 1 - 719468

DaysFromCivil(y, m, d) ==
  DaysFromShifted(IF m <= 2 THEN y - 1 ELSE y, IF m > 2 THEN m - 3 ELSE m + 9, d)

\* The civil date of a day number, computed in stages: the 400-year era and the
\* day of it, the year of the era, the day of the year, the month.
CivilFromMonth(y, d, m) == [y |-> y + (IF m <= 2 THEN 1 ELSE 0), m |-> m, d |-> d]
CivilFromMp(y, doy, mp) ==
  CivilFromMonth(y, doy - (153 * mp + 2) \div 5 + 1, IF mp < 10 THEN mp + 3 ELSE mp - 9)
CivilFromDoy(y, doy) == CivilFromMp(y, doy, (5 * doy + 2) \div 153)
CivilFromYoe(era, doe, yoe) ==
  CivilFromDoy(yoe + era * 400, doe - (365 * yoe + yoe \div 4 - yoe \div 100))
CivilFromDoe(era, doe) ==
  CivilFromYoe(era, doe, (doe - doe \div 1460 + doe \div 36524 - doe \div 146096) \div 365)
CivilFromDays(n) == CivilFromDoe((n + 719468) \div 146097, (n + 719468) % 146097)

\* new Date(year, monthIndex, day): out-of-range month and day roll over, and a
\* year 0..99 means 1900 + year.
NewDate(year, monthIndex, day) ==
  DaysFromCivil((IF year \in 0..99 THEN 1900 + year ELSE year) + monthIndex \div 12,
                (monthIndex % 12) + 1, 1) + day - 1

GetFullYear(date) == CivilFromDays(date).y
GetMonth(date) == CivilFromDays(date).m - 1
GetDate(date) == CivilFromDays(date).d
\* getDay(): 0 is Sunday; 1970-01-01 was a Thursday.
GetDay(date) == (date + 4) % 7

\* The zones of the model: one without daylight saving, and one with the United
\* States rule (second Sunday of March 02:00 to first Sunday of November 02:00).
Timezones == {"UTC", "America/New_York"}

FirstSundayFrom(day) == CHOOSE n \in day..(day + 6) : GetDay(n) = 0

DstInYear(date, y) ==
  /\ date > FirstSundayFrom(DaysFromCivil(y, 3, 8))
  /\ date <= FirstSundayFrom(DaysFromCivil(y, 11, 1))

\* Whether daylight saving is in effect at the local midnight that starts `date`.
DstAtMidnight(zone, date) ==
  zone = "America/New_York" /\ DstInYear(date, GetFullYear(date))

\* Date.prototype.getTime() of the local midnight of `date`, in minutes.  The
\* zone's standard offset is the same on every day and cancels in differences.
GetTime(zone, date) ==
  date * MinutesPerDay - (IF DstAtMidnight(zone, date) THEN DstShiftMinutes ELSE 0)

(***************************************************************************)
(* ISO date strings.  A string of the shape <digits>-<dd>-<dd> is the      *)
(* record of its numbers and of the width of its year field, so that       *)
(* "0999-01-01" and "999-01-01" are different strings.                     *)
(***************************************************************************)
IsoText(y, m, d) == [yw |-> 4, y |-> y, m |-> m, d |-> d]

Digits(n) == IF n < 10 THEN 1 ELSE IF n < 100 THEN 2 ELSE IF n < 1000 THEN 3
             ELSE IF n < 10000 THEN 4 ELSE 5

\* The round-trip test of normalizeIsoDate on the Date built from the text.
RoundTrips(value, date) ==
  /\ GetFullYear(date) = value.y
  /\ GetMonth(date) = value.m - 1
  /\ GetDate(date) = value.d

\* parser.ts normalizeIsoDate
NormalizeIsoDate(value) ==
  IF value.yw # 4 THEN Null
  ELSE IF ~RoundTrips(value, NewDate(value.y, value.m - 1, value.d)) THEN Null
  ELSE value

\* renderer parseIsoDate: the Date of a valid ISO string, else null
ParseIsoDate(iso) ==
  IF NormalizeIsoDate(iso) = Null THEN Null
  ELSE JsInt(NewDate(iso.y, iso.m - 1, iso.d))

\* renderer toIsoDate: the year is not padded, month and day are
IsoOfCivil(c) == [yw |-> Digits(c.y), y |-> c.y, m |-> c.m, d |-> c.d]
ToIsoDate(date) == IsoOfCivil(CivilFromDays(date))

\* renderer addDays
AddDaysCivil(c, days) == NewDate(c.y, c.m - 1, c.d + days)
AddDays(date, days) == AddDaysCivil(CivilFromDays(date), days)

\* renderer dayDiffInclusive
DayDiffInclusive(zone, start, end) ==
  (GetTime(zone, NewDate(GetFullYear(end), GetMonth(end), GetDate(end)))
   - GetTime(zone, NewDate(GetFullYear(start), GetMonth(start), GetDate(start))))
  \div MinutesPerDay + 1

\* renderer enumerateDates, once both dates are parsed
EnumerateParsed(zone, start, end) ==
  IF start = Null \/ end = Null THEN <<>>
  ELSE IF GetTime(zone, start.int) > GetTime(zone, end.int) THEN <<>>
  ELSE [i \in 1..DayDiffInclusive(zone, start.int, end.int) |->
          ToIsoDate(AddDays(start.int, i - 1))]

\* renderer enumerateDates
EnumerateDates(zone, startIso, endIso) ==
  EnumerateParsed(zone, ParseIsoDate(startIso), ParseIsoDate(endIso))

\* renderer isValidYear
IsValidYear(year) == IsJsInt(year) /\ year.int >= 1970 /\ year.int <= 9999

Failure(errors) == [ok |-> FALSE, errors |-> errors]
Success(type, start, end, dates) ==
  [ok |-> TRUE,
   range |-> [type |-> type, startDate |-> start, endDate |-> end, dates |-> dates]]

\* renderer resolveRange, week branch: the result once the dates are enumerated
WeekOfDates(start, end, dates) ==
  IF Len(dates) # 7
  THEN Failure(<<[msg |-> "week range must include exactly 7 dates, found",
                  found |-> Len(dates)]>>)
  ELSE Success("week", start, end, dates)

\* renderer resolveRange, week branch: the result once the title dates are read
WeekOfTitle(zone, start, end) ==
  IF start = Null \/ end = Null
  THEN Failure(<<[msg |-> "week note title contains invalid date"]>>)
  ELSE WeekOfDates(start, end, EnumerateDates(zone, start, end))

\* the week branch without the test of fromTitle
ResolveWeekAnyFlag(zone, config, title) ==
  IF ~title.match
  THEN Failure(<<[msg |-> "week note title must match YYYY.MM.dd - YYYY.MM.dd"]>>)
  ELSE WeekOfTitle(zone, NormalizeIsoDate(title.s), NormalizeIsoDate(title.e))

\* renderer resolveRange, week branch
ResolveWeek(zone, config, title) ==
  IF config.fromTitle # Bool(TRUE)
  THEN Failure(<<[msg |-> "week range requires range.fromTitle=true"]>>)
  ELSE IF ~title.match
  THEN Failure(<<[msg |-> "week note title must match YYYY.MM.dd - YYYY.MM.dd"]>>)
  ELSE WeekOfTitle(zone, NormalizeIsoDate(title.s), NormalizeIsoDate(title.e))

MonthErrors(year, month) ==
  (IF ~IsValidYear(year) THEN <<[msg |-> "month range requires range.year"]>> ELSE <<>>)
  \o (IF ~IsJsInt(month) \/ (IsJsInt(month) /\ (month.int < 1 \/ month.int > 12))
      THEN <<[msg |-> "month range requires range.month (1-12)"]>> ELSE <<>>)

RangeOfDates(type, zone, start, end) ==
  Success(type, start, end, EnumerateDates(zone, start, end))

\* renderer resolveRange, month branch
ResolveMonth(zone, config) ==
  IF Len(MonthErrors(config.year, config.month)) > 0
  THEN Failure(MonthErrors(config.year, config.month))
  ELSE RangeOfDates("month", zone, IsoText(config.year.int, config.month.int, 1),
                    ToIsoDate(NewDate(config.year.int, config.month.int, 0)))

\* renderer resolveRange, year branch
ResolveYear(zone, config) ==
  IF ~IsValidYear(config.year)
  THEN Failure(<<[msg |-> "year range requires range.year"]>>)
  ELSE RangeOfDates("year", zone, IsoText(config.year.int, 1, 1),
                    IsoText(config.year.int, 12, 31))

\* renderer resolveRange
ResolveRange(zone, config, title) ==
  IF config.type = Str("week") THEN ResolveWeek(zone, config, title)
  ELSE IF config.type = Str("month") THEN ResolveMonth(zone, config)
  ELSE ResolveYear(zone, config)

(***************************************************************************)
(* SpecRange: resolveRange applied to a configuration and a note title.    *)
(***************************************************************************)

\* The spans of the week titles of the model: the end date is 0..MaxSpan days
\* after the start date (or one day before it).
MaxSpan == 7

\* First dates of the week titles: around both daylight-saving transitions of
\* 2024, across the leap day, across the turn of the year, and not a date.
TitleStarts ==
  {IsoText(2024, 3, 4), IsoText(2024, 3, 10), IsoText(2024, 10, 28),
   IsoText(2024, 2, 26), IsoText(2023, 12, 28), IsoText(2024, 2, 30)}

TextOfCivil(c) == IsoText(c.y, c.m, c.d)
ShiftText(text, k) == TextOfCivil(CivilFromDays(NewDate(text.y, text.m - 1, text.d) + k))

Titles ==
  {[match |-> FALSE]}
  \cup {[match |-> TRUE, s |-> s, e |-> ShiftText(s, k)] : s \in TitleStarts, k \in (-1)..MaxSpan}
  \cup {[match |-> TRUE, s |-> IsoText(2024, 3, 4), e |-> IsoText(2024, 3, 32)]}

YearInputs == {Undefined, JsInt(1969), JsInt(2023), JsInt(2024)}
MonthInputs == {Undefined, JsInt(0), JsInt(13)} \cup {JsInt(m) : m \in 1..12}

\* Week configurations ignore year and month, month and year ones the title.
RangeInputs ==
  {[cfg |-> [type |-> Str("week"), year |-> Undefined, month |-> Undefined, fromTitle |-> f],
    title |-> t] : f \in {Bool(TRUE), Bool(FALSE)}, t \in Titles}
  \cup {[cfg |-> [type |-> Str("month"), year |-> y, month |-> m, fromTitle |-> Bool(TRUE)],
         title |-> [match |-> FALSE]] : y \in YearInputs, m \in MonthInputs}
  \cup {[cfg |-> [type |-> Str("year"), year |-> y, month |-> Undefined, fromTitle |-> Bool(TRUE)],
         title |-> [match |-> FALSE]] : y \in YearInputs}

IdleRange ==
  /\ timezone = "UTC"
  /\ rangeConfig = Null
  /\ basename = Null
  /\ rangeResult = Pending

InitRange ==
  /\ timezone \in Timezones
  /\ \E in \in RangeInputs : rangeConfig = in.cfg /\ basename = in.title
  /\ rangeResult = Pending

\* render calls resolveRange(config, file)
DoResolveRange ==
  /\ rangeResult = Pending
  /\ rangeResult' = ResolveRange(timezone, rangeConfig, basename)
  /\ UNCHANGED <<timezone, rangeConfig, basename, parseVars, vaultVars, cacheVars, scanVars,
                 otherVars>>

(***************************************************************************)
(* Range resolution: the claims.                                           *)
(***************************************************************************)

\* The number of calendar days from ISO date s to ISO date e, both included.
CalendarDays(s, e) == DaysFromCivil(e.y, e.m, e.d) - DaysFromCivil(s.y, s.m, s.d) + 1

\* The first day of the month after (y, m), as a day number.
NextMonthStart(y, m) == IF m = 12 THEN DaysFromCivil(y + 1, 1, 1) ELSE DaysFromCivil(y, m + 1, 1)
DaysOfMonth(y, m) == NextMonthStart(y, m) - DaysFromCivil(y, m, 1)
DaysOfYear(y) == DaysFromCivil(y + 1, 1, 1) - DaysFromCivil(y, 1, 1)

WeekTitleValid ==
  /\ rangeConfig.type = Str("week") /\ rangeConfig.fromTitle = Bool(TRUE) /\ basename.match
  /\ NormalizeIsoDate(basename.s) # Null /\ NormalizeIsoDate(basename.e) # Null
MonthConfigValid ==
  /\ rangeConfig.type = Str("month") /\ IsValidYear(rangeConfig.year)
  /\ IsJsInt(rangeConfig.month) /\ rangeConfig.month.int \in 1..12
YearConfigValid == rangeConfig.type = Str("year") /\ IsValidYear(rangeConfig.year)

\* The count resolveRange worked with: the length of the dates it returned, or the
\* count its week error reports.
CountOf(result) == IF result.ok THEN Len(result.range.dates) ELSE result.errors[1].found

Contiguous(dates) ==
  \A i \in 1..(Len(dates) - 1) :
    /\ dates[i + 1].yw = 4
    /\ CalendarDays(dates[i], dates[i + 1]) = 2

\* C9: the inclusive day count between two dates start <= end, and so the number
\* of dates enumerated for a week, a month or a year, is the number of calendar
\* days from start to end inclusive, also across a daylight-saving transition.
C9_DayCountIgnoresDst ==
  rangeResult # Pending =>
    /\ (WeekTitleValid /\ CalendarDays(basename.s, basename.e) >= 1
          => CountOf(rangeResult) = CalendarDays(basename.s, basename.e))
    /\ (MonthConfigValid
          => CountOf(rangeResult) = DaysOfMonth(rangeConfig.year.int, rangeConfig.month.int))
    /\ (YearConfigValid => CountOf(rangeResult) = DaysOfYear(rangeConfig.year.int))

\* C10: every successful resolution yields contiguous dates from startDate to
\* endDate: 7 for a week (any other count of two valid title dates fails with an
\* error reporting that count), the days of the month, Jan 1 to Dec 31 of the year.
C10_RangeDatesExact ==
  rangeResult # Pending =>
    /\ (rangeResult.ok =>
          /\ Len(rangeResult.range.dates) >= 1
          /\ Contiguous(rangeResult.range.dates)
          /\ rangeResult.range.dates[1] = rangeResult.range.startDate
          /\ rangeResult.range.dates[Len(rangeResult.range.dates)] = rangeResult.range.endDate
          /\ (rangeResult.range.type = "week" => Len(rangeResult.range.dates) = 7)
          /\ (rangeResult.range.type = "month" =>
                /\ rangeResult.range.startDate
                     = IsoText(rangeConfig.year.int, rangeConfig.month.int, 1)
                /\ Len(rangeResult.range.dates)
                     = DaysOfMonth(rangeConfig.year.int, rangeConfig.month.int))
          /\ (rangeResult.range.type = "year" =>
                /\ rangeResult.range.startDate = IsoText(rangeConfig.year.int, 1, 1)
                /\ rangeResult.range.endDate = IsoText(rangeConfig.year.int, 12, 31)
                /\ Len(rangeResult.range.dates) = DaysOfYear(rangeConfig.year.int)))
    /\ (WeekTitleValid /\ CalendarDays(basename.s, basename.e) # 7 =>
          /\ ~rangeResult.ok
          /\ rangeResult.errors[1].found = CalendarDays(basename.s, basename.e))

\* Both statements hold where no daylight-saving transition exists.
RangeExactWithoutDst ==
  timezone = "UTC" => C9_DayCountIgnoresDst /\ C10_RangeDatesExact

(***************************************************************************)
(* The habit parser (parser.ts).                                           *)
(*                                                                         *)
(* A line of the content is what the four patterns see of it:              *)
(*   - heading: the YYYY.MM.dd capture of DATE_HEADING_PATTERN, or Null    *)
(*     when the line does not match (a line that matches can hold no habit *)
(*     token and is no checklist item);                                    *)
(*   - checklist: whether CHECKLIST_PATTERN matches, and with which mark;  *)
(*   - tokens: the occurrences of habit-<name> in the line, left to right, *)
(*     each with the ::<value> that INLINE_HABIT_PATTERN captures after    *)
(*     it, if any.                                                         *)
(***************************************************************************)
Heading(y, m, d) == [heading |-> IsoText(y, m, d), checklist |-> "none", tokens |-> <<>>]
TextLine(checklist, tokens) == [heading |-> Null, checklist |-> checklist, tokens |-> tokens]
IsHeadingShape(line) == line.heading # Null

\* The value of a token: a word, a numeral (its Number()), a numeral too long
\* to be a finite number, or none (a habit-<name> without ::value).
Word(w) == [word |-> w]
Numeral(n) == [number |-> n]
Overflow == [overflow |-> TRUE]
NoValue == [novalue |-> TRUE]
Token(habit, value) == [habit |-> habit, value |-> value]

IsWord(v, w) == "word" \in DOMAIN v /\ v.word = w
\* Number.isFinite(Number(rawValue))
IsFiniteNumber(v) == "number" \in DOMAIN v

\* Map.get(key) ?? fallback, and Map.set
MapGet(map, key, fallback) == IF key \in DOMAIN map THEN map[key] ELSE fallback
MapSet(map, key, value) == [k \in DOMAIN map \cup {key} |-> IF k = key THEN value ELSE map[k]]
EmptyMap == << >>

EmptyAccumulator ==
  [numericSum |-> JsInt(0), hasNumeric |-> FALSE, inlineTrue |-> FALSE, inlineFalse |-> FALSE,
   checklistTrue |-> FALSE, checklistFalse |-> FALSE]

\* getAccumulator: the accumulators with one for (date, habit) in place
EnsureHabit(byHabit, habit) ==
  IF habit \in DOMAIN byHabit THEN byHabit ELSE MapSet(byHabit, habit, EmptyAccumulator)
GetAccumulator(accs, date, habit) ==
  MapSet(accs, date, EnsureHabit(MapGet(accs, date, EmptyMap), habit))

\* extractInlineTokens: what one match does to its bucket
InlineBucket(bucket, value) ==
  IF IsWord(value, "true") \/ IsWord(value, "yes") THEN [bucket EXCEPT !.inlineTrue = TRUE]
  ELSE IF IsWord(value, "false") \/ IsWord(value, "no") THEN [bucket EXCEPT !.inlineFalse = TRUE]
  ELSE IF IsFiniteNumber(value)
       THEN [bucket EXCEPT !.hasNumeric = TRUE, !.numericSum = NumberAdd(@, value.number)]
  ELSE bucket

UpdateBucket(accs, date, habit, bucket) == [accs EXCEPT ![date][habit] = bucket]
InlineInPlace(accs, date, token) ==
  UpdateBucket(accs, date, token.habit, InlineBucket(accs[date][token.habit], token.value))

\* extractInlineTokens: one match of INLINE_HABIT_PATTERN
InlineMatch(accs, date, token) ==
  IF token.value = NoValue THEN accs
  ELSE InlineInPlace(GetAccumulator(accs, date, token.habit), date, token)

RECURSIVE InlineFrom(_, _, _, _)
InlineFrom(tokens, i, date, accs) ==
  IF i > Len(tokens) THEN accs
  ELSE InlineFrom(tokens, i + 1, date, InlineMatch(accs, date, tokens[i]))

\* extractInlineTokens
ExtractInlineTokens(line, date, accs) == InlineFrom(line.tokens, 1, date, accs)

\* extractChecklistTokens: what one habit mention does to its bucket
ChecklistBucket(bucket, checked) ==
  IF checked THEN [bucket EXCEPT !.checklistTrue = TRUE]
  ELSE [bucket EXCEPT !.checklistFalse = TRUE]

ChecklistInPlace(accs, date, habit, checked) ==
  UpdateBucket(accs, date, habit, ChecklistBucket(accs[date][habit], checked))

RECURSIVE ChecklistFrom(_, _, _, _, _)
ChecklistFrom(tokens, i, checked, date, accs) ==
  IF i > Len(tokens) THEN accs
  ELSE ChecklistFrom(tokens, i + 1, checked, date,
         ChecklistInPlace(GetAccumulator(accs, date, tokens[i].habit), date,
                          tokens[i].habit, checked))

\* extractChecklistTokens
ExtractChecklistTokens(line, date, accs) ==
  IF line.checklist = "none" THEN accs
  ELSE ChecklistFrom(line.tokens, 1, line.checklist = "checked", date, accs)

\* a parseDateHeading that takes the date as it is written
ParseDateHeadingUnchecked(line) ==
  IF ~IsHeadingShape(line) THEN Null ELSE line.heading

\* parseDateHeading
ParseDateHeading(line) ==
  IF ~IsHeadingShape(line) THEN Null ELSE NormalizeIsoDate(line.heading)

\* A variant of ResolveBoolean that asks checklistFalse before checklistTrue.
ResolveBooleanUncheckedFirst(acc) ==
  IF acc.inlineTrue THEN [bool |-> TRUE]
  ELSE IF acc.checklistFalse THEN [bool |-> FALSE]
  ELSE IF acc.checklistTrue THEN [bool |-> TRUE]
  ELSE IF acc.inlineFalse THEN [bool |-> FALSE]
  ELSE Null

\* resolveBoolean
ResolveBoolean(acc) ==
  IF acc.inlineTrue THEN [bool |-> TRUE]
  ELSE IF acc.checklistTrue THEN [bool |-> TRUE]
  ELSE IF acc.checklistFalse THEN [bool |-> FALSE]
  ELSE IF acc.inlineFalse THEN [bool |-> FALSE]
  ELSE Null

NumericValue(n) == [kind |-> "numeric", value |-> n]
BooleanValue(b) == [kind |-> "boolean", value |-> b]

\* resolveAccumulators: whether a value is set for the habit
Resolves(acc) == acc.hasNumeric \/ ResolveBoolean(acc) # Null
\* resolveAccumulators: the value set for the habit
ResolveOne(acc) ==
  IF acc.hasNumeric THEN NumericValue(acc.numericSum)
  ELSE BooleanValue(ResolveBoolean(acc).bool)

ResolveHabits(habits) ==
  [h \in {k \in DOMAIN habits : Resolves(habits[k])} |-> ResolveOne(habits[h])]

\* resolveAccumulators: a date is set only when some habit of it resolved
ResolveAccumulators(accs) ==
  [date \in {k \in DOMAIN accs : DOMAIN ResolveHabits(accs[k]) # {}} |->
     ResolveHabits(accs[date])]

\* The state of the loop of parseMarkdownHabits.
LoopState(active, accs, headings) ==
  [activeDate |-> active, accumulators |-> accs, headingLinesByDate |-> headings]
LoopStart == LoopState(Null, EmptyMap, EmptyMap)

\* A variant of HeadingStep that starts the date afresh when it is headed again.
HeadingStepAfresh(st, heading, index) ==
  LoopState(heading,
            [date \in DOMAIN st.accumulators \ {heading} |-> st.accumulators[date]],
            MapSet(st.headingLinesByDate, heading,
                   Append(MapGet(st.headingLinesByDate, heading, <<>>), index + 1)))

\* The loop body on a date heading, at (0-based) index
HeadingStep(st, heading, index) ==
  LoopState(heading, st.accumulators,
            MapSet(st.headingLinesByDate, heading,
                   Append(MapGet(st.headingLinesByDate, heading, <<>>), index + 1)))

\* The loop body on any other line
TokenStep(st, line) ==
  IF st.activeDate = Null THEN st
  ELSE LoopState(st.activeDate,
                 ExtractChecklistTokens(line, st.activeDate,
                   ExtractInlineTokens(line, st.activeDate, st.accumulators)),
                 st.headingLinesByDate)

\* parseMarkdownHabits: the body of the loop over the lines
ParseStep(st, line, index) ==
  IF ParseDateHeading(line) # Null THEN HeadingStep(st, ParseDateHeading(line), index)
  ELSE TokenStep(st, line)

\* parseMarkdownHabits: the value returned
ParsedFileData(file, st) ==
  [file |-> file,
   valuesByDateHabit |-> ResolveAccumulators(st.accumulators),
   headingLinesByDate |-> st.headingLinesByDate]

RECURSIVE ParseFrom(_, _, _, _)
ParseFrom(file, content, i, st) ==
  IF i > Len(content) THEN ParsedFileData(file, st)
  ELSE ParseFrom(file, content, i + 1, ParseStep(st, content[i], i - 1))

\* parseMarkdownHabits(file, content), content given as its lines
ParseMarkdownHabits(file, content) == ParseFrom(file, content, 1, LoopStart)

(***************************************************************************)
(* SpecParse: one call of parseMarkdownHabits; the content is read a line  *)
(* at a time and may end after any line.                                   *)
(***************************************************************************)

\* The content has at most MaxLines lines.
MaxLines == 4

\* The path of the note being parsed: "j/w" (every character is written out, so
\* that the string operations of the scanner apply to it).
NotePath == <<"j", "/", "w">>

Workout == "workout"
Reading == "reading"
Habits == {Workout, Reading}

\* The lines of the model.
LineAlphabet ==
  { Heading(2026, 2, 10), Heading(2026, 2, 11), Heading(2026, 2, 30),
    TextLine("none", <<Token(Workout, Word("true"))>>),
    TextLine("none", <<Token(Workout, Word("no"))>>),
    TextLine("none", <<Token(Workout, Numeral(JsInt(20)))>>),
    TextLine("none", <<Token(Workout, Overflow)>>),
    TextLine("checked", <<Token(Workout, NoValue)>>),
    TextLine("unchecked", <<Token(Workout, NoValue)>>),
    TextLine("unchecked", <<Token(Workout, Word("false"))>>),
    TextLine("none", <<Token(Reading, Word("yes")), Token(Workout, Numeral(JsInt(15)))>>),
    TextLine("none", <<Token(Workout, Numeral(OneTenth)), Token(Workout, Numeral(TwoTenths)),
                       Token(Workout, Numeral(ThreeTenths))>>) }

IdleParse ==
  /\ lines = <<>>
  /\ activeDate = Null
  /\ accumulators = EmptyMap
  /\ headingLinesByDate = EmptyMap
  /\ parsed = Pending

InitParse == IdleParse

CurrentLoopState == LoopState(activeDate, accumulators, headingLinesByDate)

\* One iteration of the loop, on the next line of the content
ParseLine ==
  /\ parsed = Pending
  /\ Len(lines) < MaxLines
  /\ \E line \in LineAlphabet :
       /\ lines' = Append(lines, line)
       /\ activeDate' = ParseStep(CurrentLoopState, line, Len(lines)).activeDate
       /\ accumulators' = ParseStep(CurrentLoopState, line, Len(lines)).accumulators
       /\ headingLinesByDate' = ParseStep(CurrentLoopState, line, Len(lines)).headingLinesByDate
  /\ UNCHANGED <<parsed, rangeVars, vaultVars, cacheVars, scanVars, otherVars>>

\* The loop ends with the content (split leaves at least one line) and the
\* accumulators are resolved
ParseReturn ==
  /\ parsed = Pending
  /\ Len(lines) >= 1
  /\ parsed' = ParsedFileData(NotePath, CurrentLoopState)
  /\ UNCHANGED <<lines, activeDate, accumulators, headingLinesByDate, rangeVars,
                 vaultVars, cacheVars, scanVars, otherVars>>

NextParse == ParseLine \/ ParseReturn

(***************************************************************************)
(* The parser: the claims.  What a content means is defined here on the    *)
(* lines themselves, without the loop: the section a line belongs to and   *)
(* the sets of token occurrences of a (date, habit).                       *)
(***************************************************************************)

\* A YYYY.MM.dd text that names a day of the calendar.
IsCalendarDate(t) == t.m \in 1..12 /\ t.d >= 1 /\ t.d <= DaysOfMonth(t.y, t.m)

IsDateHeading(line) == line.heading # Null /\ IsCalendarDate(line.heading)

\* The line numbers (1-based) of the date headings above line i.
HeadingsAbove(i) == {k \in 1..(i - 1) : IsDateHeading(lines[k])}
Highest(S) == CHOOSE x \in S : \A y \in S : y <= x

\* The date of the section line i lies in: that of the nearest date heading above.
SectionDate(i) ==
  IF HeadingsAbove(i) = {} THEN Null ELSE lines[Highest(HeadingsAbove(i))].heading

\* The dates and the text of the headings of the model, valid or not.
HeadingTexts == {line.heading : line \in {l \in LineAlphabet : l.heading # Null}}

\* The section date of every line read so far.
Sections == [i \in 1..Len(lines) |-> SectionDate(i)]

\* The occurrences <<line, token>> of `habit` on the non-heading lines of the
\* section(s) of `date`, given the section of every line.
OccurrencesIn(sections, date, habit) ==
  UNION { {<<i, j>> : j \in {n \in DOMAIN lines[i].tokens : lines[i].tokens[n].habit = habit}}
          : i \in {k \in 1..Len(lines) : ~IsDateHeading(lines[k]) /\ sections[k] = date} }
Occurrences(date, habit) == OccurrencesIn(Sections, date, habit)

ValueAt(p) == lines[p[1]].tokens[p[2]].value

\* Among occurrences occ: the numeric tokens, the inline true/yes and false/no
\* tokens, the tokens with a value, the mentions on checked and unchecked items.
NumericAmong(occ) == {p \in occ : IsFiniteNumber(ValueAt(p))}
InlineTrueAmong(occ) == {p \in occ : ValueAt(p) \in {Word("true"), Word("yes")}}
InlineFalseAmong(occ) == {p \in occ : ValueAt(p) \in {Word("false"), Word("no")}}
InlineAmong(occ) == {p \in occ : ValueAt(p) # NoValue}
CheckedAmong(occ) == {p \in occ : lines[p[1]].checklist = "checked"}
UncheckedAmong(occ) == {p \in occ : lines[p[1]].checklist = "unchecked"}

NumericTokens(date, habit) == NumericAmong(Occurrences(date, habit))
BooleanSignals(date, habit) ==
  {p \in Occurrences(date, habit) :
     \/ ValueAt(p) \in {Word("true"), Word("yes"), Word("false"), Word("no")}
     \/ lines[p[1]].checklist # "none"}

\* The sum of the numeric tokens at the occurrences S, added one after the other
\* in the order they stand in the content.
StandsAfter(p, q) == p[1] > q[1] \/ (p[1] = q[1] /\ p[2] > q[2])
LastOf(S) == CHOOSE p \in S : \A q \in S \ {p} : StandsAfter(p, q)
RECURSIVE SumOfTokens(_)
SumWithout(S, p) == NumberAdd(SumOfTokens(S \ {p}), ValueAt(p).number)
SumOfTokens(S) == IF S = {} THEN JsInt(0) ELSE SumWithout(S, LastOf(S))

HasValue(result, date, habit) ==
  date \in DOMAIN result.valuesByDateHabit /\ habit \in DOMAIN result.valuesByDateHabit[date]
HasAccumulator(date, habit) ==
  date \in DOMAIN accumulators /\ habit \in DOMAIN accumulators[date]

\* Whichever order the numeric tokens at the occurrences S are added in, after
\* the partial sum `sum`, the total is `total`.
RECURSIVE EverySumIs(_, _, _)
EverySumIs(S, sum, total) ==
  IF S = {} THEN sum = total
  ELSE \A p \in S : EverySumIs(S \ {p}, NumberAdd(sum, ValueAt(p).number), total)

IsNumericValue(result, date, habit) ==
  /\ HasValue(result, date, habit)
  /\ result.valuesByDateHabit[date][habit].kind = "numeric"

NumericSumParsed(date, habit, numeric) ==
  numeric # {} =>
    /\ IsNumericValue(parsed, date, habit)
    /\ EverySumIs(numeric, JsInt(0), parsed.valuesByDateHabit[date][habit].value)

\* C3: when a (date, habit) has at least one numeric inline token on the lines of
\* the date, the parsed value is numeric and is the sum of all those tokens, in
\* whichever order they are added, whatever boolean signals (inline or checklist)
\* the same (date, habit) has.
C3_NumericIsSumOfTokens ==
  parsed # Pending =>
    \A date \in HeadingTexts, habit \in Habits :
      NumericSumParsed(date, habit, NumericTokens(date, habit))

NumericSumInOrderParsed(date, habit, numeric) ==
  numeric # {} =>
    /\ HasValue(parsed, date, habit)
    /\ parsed.valuesByDateHabit[date][habit] = NumericValue(SumOfTokens(numeric))

\* With at least one numeric token the parsed value is numeric, the sum of the
\* tokens added in the order they stand in the content, whatever the boolean signals.
NumericIsSumInDocumentOrder ==
  parsed # Pending =>
    \A date \in HeadingTexts, habit \in Habits :
      NumericSumInOrderParsed(date, habit, NumericTokens(date, habit))

IntegerTokens(numeric) == \A p \in numeric : IsJsInt(ValueAt(p).number)

\* With integer tokens only, the parsed value is their sum in whichever order.
NumericIsSumOfIntegerTokens ==
  parsed # Pending =>
    \A date \in HeadingTexts, habit \in Habits :
      IntegerTokens(NumericTokens(date, habit)) =>
        NumericSumParsed(date, habit, NumericTokens(date, habit))

\* The value the parse result holds for (date, habit), or Null when it has none.
ParsedValue(date, habit) ==
  IF HasValue(parsed, date, habit) THEN parsed.valuesByDateHabit[date][habit] ELSE Null

\* C4: without a numeric token, the accumulator of a (date, habit) resolves by
\* priority: inlineTrue gives true, else checklistTrue gives true, else
\* checklistFalse gives false, else inlineFalse gives false, and with no flag set
\* the (date, habit) pair is absent from the result.
C4_BooleanPriority ==
  parsed # Pending =>
    \A date \in DOMAIN accumulators : \A habit \in DOMAIN accumulators[date] :
      ~accumulators[date][habit].hasNumeric =>
        /\ accumulators[date][habit].inlineTrue
             => ParsedValue(date, habit) = BooleanValue(TRUE)
        /\ ~accumulators[date][habit].inlineTrue /\ accumulators[date][habit].checklistTrue
             => ParsedValue(date, habit) = BooleanValue(TRUE)
        /\ ~accumulators[date][habit].inlineTrue /\ ~accumulators[date][habit].checklistTrue
           /\ accumulators[date][habit].checklistFalse
             => ParsedValue(date, habit) = BooleanValue(FALSE)
        /\ ~accumulators[date][habit].inlineTrue /\ ~accumulators[date][habit].checklistTrue
           /\ ~accumulators[date][habit].checklistFalse /\ accumulators[date][habit].inlineFalse
             => ParsedValue(date, habit) = BooleanValue(FALSE)
        /\ ~accumulators[date][habit].inlineTrue /\ ~accumulators[date][habit].checklistTrue
           /\ ~accumulators[date][habit].checklistFalse /\ ~accumulators[date][habit].inlineFalse
             => ParsedValue(date, habit) = Null

\* The flags of an accumulator, as a set.
FlagsOf(acc) ==
  {f \in {"inlineTrue", "inlineFalse", "checklistTrue", "checklistFalse"} : acc[f]}

\* A parse whose accumulator has checklistTrue, checklistFalse and inlineFalse but
\* not inlineTrue: the checklist decides, and true wins.
C4_Witness ==
  /\ parsed # Pending
  /\ \E date \in DOMAIN accumulators :
       /\ Workout \in DOMAIN accumulators[date]
       /\ ~accumulators[date][Workout].hasNumeric
       /\ FlagsOf(accumulators[date][Workout]) = {"inlineFalse", "checklistTrue", "checklistFalse"}

\* Every combination of the four flags occurs in some parse (checked one by one).
FlagCombinationAbsent(flags) ==
  ~(/\ parsed # Pending
    /\ \E date \in DOMAIN accumulators :
         /\ Workout \in DOMAIN accumulators[date]
         /\ ~accumulators[date][Workout].hasNumeric
         /\ FlagsOf(accumulators[date][Workout]) = flags)

\* The accumulator that occurrences occ of a (date, habit) amount to.
ExpectedAccumulator(occ) ==
  [numericSum |-> SumOfTokens(NumericAmong(occ)),
   hasNumeric |-> NumericAmong(occ) # {},
   inlineTrue |-> InlineTrueAmong(occ) # {},
   inlineFalse |-> InlineFalseAmong(occ) # {},
   checklistTrue |-> CheckedAmong(occ) # {},
   checklistFalse |-> UncheckedAmong(occ) # {}]

\* The occurrences occ of a (date, habit) are what its accumulator holds; a
\* (date, habit) with no inline token and no checklist mention has none.
Credited(date, habit, occ) ==
  IF InlineAmong(occ) \cup CheckedAmong(occ) \cup UncheckedAmong(occ) = {}
  THEN ~HasAccumulator(date, habit)
  ELSE /\ HasAccumulator(date, habit)
       /\ accumulators[date][habit] = ExpectedAccumulator(occ)

AllCredited(sections) ==
  \A date \in HeadingTexts, habit \in Habits :
    Credited(date, habit, OccurrencesIn(sections, date, habit))

\* The line numbers of the headings of `date`.
HeadingLinesOf(date) == {k \in 1..Len(lines) : IsDateHeading(lines[k]) /\ lines[k].heading = date}

Ascending(seq) == \A i \in 1..(Len(seq) - 1) : seq[i] < seq[i + 1]
Elements(seq) == {seq[i] : i \in 1..Len(seq)}

\* C5: at every point of the scan, each token read so far is credited to the date
\* of the nearest date heading above its line and to no date when there is none;
\* the sections of a date headed several times share one accumulator; and
\* headingLinesByDate[date] lists the line numbers of every heading of the date,
\* ascending.
C5_SectionAttribution ==
  parsed = Pending =>
    /\ activeDate = SectionDate(Len(lines) + 1)
    /\ DOMAIN headingLinesByDate = {date \in HeadingTexts : HeadingLinesOf(date) # {}}
    /\ \A date \in DOMAIN headingLinesByDate :
         /\ Ascending(headingLinesByDate[date])
         /\ Elements(headingLinesByDate[date]) = HeadingLinesOf(date)
    /\ DOMAIN accumulators \subseteq HeadingTexts
    /\ AllCredited(Sections)

\* A date headed twice, with a numeric token in each of its two sections.
C5_Witness ==
  \E date \in DOMAIN headingLinesByDate :
    /\ Len(headingLinesByDate[date]) = 2
    /\ \E p \in NumericTokens(date, Workout), q \in NumericTokens(date, Workout) :
         p[1] < headingLinesByDate[date][2] /\ q[1] > headingLinesByDate[date][2]

\* Tokens above the first date heading, and none credited to any date.
C5_WitnessBeforeHeading ==
  /\ Len(lines) >= 2
  /\ lines[1].tokens # <<>>
  /\ IsDateHeading(lines[2])
  /\ accumulators = EmptyMap

(***************************************************************************)
(* The scanner (scanner.ts).  A path is the sequence of its characters, so *)
(* that lastIndexOf, slice, split and startsWith act on it as they do on   *)
(* the string.                                                             *)
(***************************************************************************)

Slash == "/"

\* String.prototype.lastIndexOf(ch): positions count from 0, -1 when absent
LastIndexOf(str, ch) ==
  IF \E i \in 1..Len(str) : str[i] = ch
  THEN (CHOOSE i \in 1..Len(str) :
          str[i] = ch /\ \A j \in (i + 1)..Len(str) : str[j] # ch) - 1
  ELSE -1

\* String.prototype.slice(0, end)
SliceTo(str, end) == SubSeq(str, 1, end)

\* String.prototype.startsWith(prefix)
StartsWith(str, prefix) ==
  Len(prefix) <= Len(str) /\ SubSeq(str, 1, Len(prefix)) = prefix

\* String.prototype.split("/"): the pieces between the slashes, empty ones kept
RECURSIVE SplitFrom(_, _, _, _)
SplitFrom(str, i, piece, pieces) ==
  IF i > Len(str) THEN Append(pieces, piece)
  ELSE IF str[i] = Slash THEN SplitFrom(str, i + 1, <<>>, Append(pieces, piece))
  ELSE SplitFrom(str, i + 1, Append(piece, str[i]), pieces)

Split(str) == SplitFrom(str, 1, <<>>, <<>>)

\* String.prototype.toLowerCase, on the letters the paths of the model use
UpperCase == [T |-> "t", E |-> "e", M |-> "m", P |-> "p", L |-> "l", A |-> "a", S |-> "s"]
LowerChar(ch) == IF ch \in DOMAIN UpperCase THEN UpperCase[ch] ELSE ch
ToLowerCase(str) == [i \in 1..Len(str) |-> LowerChar(str[i])]

\* The literal "templates"
TemplatesName == <<"t", "e", "m", "p", "l", "a", "t", "e", "s">>

\* scanner getParentPath
GetParentPath(path) ==
  IF LastIndexOf(path, Slash) = -1 THEN <<>>
  ELSE SliceTo(path, LastIndexOf(path, Slash))

\* HabitScanner.shouldIgnoreFile: segments.some(...)
SomeSegmentIsTemplates(segments) ==
  \E i \in 1..Len(segments) : ToLowerCase(segments[i]) = TemplatesName

ShouldIgnoreFile(path) == SomeSegmentIsTemplates(Split(path))

\* getFilesForRange, month: the filter on allMarkdown
FilesOfMonth(allMarkdown, dir) ==
  LET SameDirectory(file) == GetParentPath(file) = dir
  IN  SelectSeq(allMarkdown, SameDirectory)

\* getFilesForRange, year: the test of one file's directory
YearDirectoryTest(fileDir, dir) ==
  fileDir = dir \/ StartsWith(fileDir, dir \o <<Slash>>)

FilesOfYear(allMarkdown, dir) ==
  LET InOrBelow(file) == YearDirectoryTest(GetParentPath(file), dir)
  IN  SelectSeq(allMarkdown, InOrBelow)

\* getFilesForRange: vault.getMarkdownFiles() without the ignored files
AllMarkdown(listed) ==
  LET NotIgnored(file) == ~ShouldIgnoreFile(file)
  IN  SelectSeq(listed, NotIgnored)

\* HabitScanner.getFilesForRange; listed is vault.getMarkdownFiles()
GetFilesForRange(listed, current, type) ==
  IF type = "week" THEN (IF ShouldIgnoreFile(current) THEN <<>> ELSE <<current>>)
  ELSE IF type = "month" THEN FilesOfMonth(AllMarkdown(listed), GetParentPath(current))
  ELSE FilesOfYear(AllMarkdown(listed), GetParentPath(current))

\* A JavaScript object: the reference tells two objects of equal content apart.
Ref(id, object) == [ref |-> id, object |-> object]

\* the test below with the modification time left out
CacheHitAnyMtime(cached, mtime) == cached # Null

\* getParsedFile: the test for returning the cached parse
CacheHit(cached, mtime) == cached # Null /\ cached.mtime = mtime

\* a store that leaves the parse of an entry already there
StoreParsedTokenOnly(entries, path, mtime, parsedNow, count) ==
  [parsed |-> parsedNow,
   cache |-> MapSet(entries, path,
                    [mtime |-> mtime,
                     parsed |-> IF path \in DOMAIN entries THEN entries[path].parsed
                                ELSE parsedNow]),
   parseCount |-> count]

\* getParsedFile, after cachedRead: parse, store the entry, return the parse
StoreParsed(entries, path, mtime, parsedNow, count) ==
  [parsed |-> parsedNow,
   cache |-> MapSet(entries, path, [mtime |-> mtime, parsed |-> parsedNow]),
   parseCount |-> count]

\* HabitScanner.getParsedFile(file): what it returns, and the cache and the number
\* of parses it leaves; file is the vault's [mtime, content] of the path
GetParsedFile(entries, path, file, count) ==
  IF CacheHit(MapGet(entries, path, Null), file.mtime)
  THEN [parsed |-> entries[path].parsed, cache |-> entries, parseCount |-> count]
  ELSE StoreParsed(entries, path, file.mtime,
                   Ref(count + 1, ParseMarkdownHabits(path, file.content)), count + 1)

\* a deletion that takes every entry with it
InvalidatePathAll(entries, path) == EmptyMap

\* HabitScanner.invalidatePath: Map.delete
InvalidatePath(entries, path) == [p \in DOMAIN entries \ {path} |-> entries[p]]

\* HabitScanner.clear: Map.clear
Clear(entries) == EmptyMap

\* scan: const dateSet = new Set(range.dates)
DateSet(dates) == {dates[i] : i \in 1..Len(dates)}

\* scan: the keys of a map of the parse that pass dateSet.has(date)
InRangeDates(map, dateSet) == {date \in DOMAIN map : date \in dateSet}

\* the candidate with the line of the last heading of the date
CandidateOfLastHeading(file, headingLines, dateValues) ==
  [file |-> file,
   headingLine |-> IF Len(headingLines) = 0 THEN 1 ELSE headingLines[Len(headingLines)],
   habitsWithData |-> DOMAIN dateValues]

\* scan: the candidate pushed for a date heading of the file
Candidate(file, headingLines, dateValues) ==
  [file |-> file,
   headingLine |-> IF Len(headingLines) = 0 THEN 1 ELSE headingLines[1],
   habitsWithData |-> DOMAIN dateValues]

\* scan: the first inner loop, over parsed.headingLinesByDate
RegisterCandidates(candidates, file, parsedNow, dateSet) ==
  [date \in DOMAIN candidates \cup InRangeDates(parsedNow.headingLinesByDate, dateSet) |->
     IF date \in InRangeDates(parsedNow.headingLinesByDate, dateSet)
     THEN Append(MapGet(candidates, date, <<>>),
                 Candidate(file, parsedNow.headingLinesByDate[date],
                           MapGet(parsedNow.valuesByDateHabit, date, EmptyMap)))
     ELSE candidates[date]]

EmptyBucket == [numericSum |-> JsInt(0), hasNumeric |-> FALSE, boolTrue |-> FALSE, boolFalse |-> FALSE]

\* scan: one value folded into its bucket
FoldValue(bucket, value) ==
  IF value.kind = "numeric"
  THEN [bucket EXCEPT !.hasNumeric = TRUE, !.numericSum = NumberAdd(@, value.value)]
  ELSE IF value.value THEN [bucket EXCEPT !.boolTrue = TRUE]
  ELSE [bucket EXCEPT !.boolFalse = TRUE]

\* the habits added with the range test left out
HabitsSeenAnyDate(values, dateSet) == UNION {DOMAIN values[date] : date \in DOMAIN values}

\* scan: the habits habitsFound.add is called with for one file
HabitsSeen(values, dateSet) ==
  UNION {DOMAIN values[date] : date \in InRangeDates(values, dateSet)}

\* scan: the buckets of one habit after one file
FoldHabit(byDate, habit, values, dateSet) ==
  [date \in DOMAIN byDate \cup {d \in InRangeDates(values, dateSet) : habit \in DOMAIN values[d]} |->
     IF date \in InRangeDates(values, dateSet) /\ habit \in DOMAIN values[date]
     THEN FoldValue(MapGet(byDate, date, EmptyBucket), values[date][habit])
     ELSE byDate[date]]

\* scan: the second inner loop, over parsed.valuesByDateHabit
FoldFile(aggs, values, dateSet) ==
  [habit \in DOMAIN aggs \cup HabitsSeen(values, dateSet) |->
     FoldHabit(MapGet(aggs, habit, EmptyMap), habit, values, dateSet)]

\* scan: the value a bucket is finalized to, Null when no flag is set
FinalizeBucket(bucket) ==
  IF bucket.hasNumeric THEN NumericValue(bucket.numericSum)
  ELSE IF bucket.boolTrue THEN BooleanValue(TRUE)
  ELSE IF bucket.boolFalse THEN BooleanValue(FALSE)
  ELSE Null

ResolvedByDate(byDate) ==
  [date \in {d \in DOMAIN byDate : FinalizeBucket(byDate[d]) # Null} |->
     FinalizeBucket(byDate[date])]

\* scan: const valuesByHabit, from the aggregates
ValuesByHabit(aggs) == [habit \in DOMAIN aggs |-> ResolvedByDate(aggs[habit])]

(***************************************************************************)
(* One call of HabitScanner.scan.  The loop awaits getParsedFile once per  *)
(* file; what follows the await up to the next one is one step.            *)
(***************************************************************************)

IdleVault ==
  /\ vaultFiles = EmptyMap
  /\ markdownFiles = <<>>

IdleCache ==
  /\ cache = EmptyMap
  /\ parseCount = 0
  /\ invalidated = EmptyMap
  /\ lastCall = Null

IdleScan ==
  /\ currentFile = <<>>
  /\ range = Null
  /\ scanPc = "start"
  /\ files = <<>>
  /\ position = 0
  /\ aggregates = EmptyMap
  /\ candidatesByDate = EmptyMap
  /\ habitsFound = {}
  /\ scanResult = Pending

IdleScanner == IdleVault /\ IdleCache /\ IdleScan

Without(map, key) == [k \in DOMAIN map \ {key} |-> map[k]]

\* What a call of getParsedFile saw and did
GetParsedFileCall(path, file, got) ==
  [op |-> "getParsedFile", path |-> path, before |-> cache, after |-> got.cache,
   file |-> file, countBefore |-> parseCount, countAfter |-> got.parseCount,
   returned |-> got.parsed, wasInvalidated |-> path \in DOMAIN invalidated,
   removed |-> MapGet(invalidated, path, Null)]

\* scan, lines 34-39: the files are selected and the collections are created
ScanBegin ==
  /\ currentFile # <<>>
  /\ scanPc = "start"
  /\ scanPc' = "loop"
  /\ files' = GetFilesForRange(markdownFiles, currentFile, range.type)
  /\ position' = 0
  /\ aggregates' = EmptyMap
  /\ candidatesByDate' = EmptyMap
  /\ habitsFound' = {}
  /\ UNCHANGED <<currentFile, range, scanResult, vaultVars, cacheVars, rangeVars, parseVars,
                 otherVars>>

\* scan, one iteration of the loop over files, given what getParsedFile gave
ScanFileWith(path, got) ==
  /\ cache' = got.cache
  /\ parseCount' = got.parseCount
  /\ invalidated' = Without(invalidated, path)
  /\ lastCall' = GetParsedFileCall(path, vaultFiles[path], got)
  /\ candidatesByDate' =
       RegisterCandidates(candidatesByDate, path, got.parsed.object, DateSet(range.dates))
  /\ aggregates' =
       FoldFile(aggregates, got.parsed.object.valuesByDateHabit, DateSet(range.dates))
  /\ habitsFound' =
       habitsFound \cup HabitsSeen(got.parsed.object.valuesByDateHabit, DateSet(range.dates))
  /\ position' = position + 1
  /\ UNCHANGED <<currentFile, range, scanPc, files, scanResult, vaultVars, rangeVars,
                 parseVars, otherVars>>

ScanFile ==
  /\ scanPc = "loop"
  /\ position < Len(files)
  /\ ScanFileWith(files[position + 1],
                  GetParsedFile(cache, files[position + 1],
                                vaultFiles[files[position + 1]], parseCount))

\* scan, lines 89-116: the buckets are finalized and the result is returned
ScanReturn ==
  /\ scanPc = "loop"
  /\ position = Len(files)
  /\ scanPc' = "done"
  /\ scanResult' = [dates |-> range.dates,
                    valuesByHabit |-> ValuesByHabit(aggregates),
                    habitsFound |-> habitsFound,
                    candidatesByDate |-> candidatesByDate,
                    scannedFiles |-> files]
  /\ UNCHANGED <<currentFile, range, files, position, aggregates, candidatesByDate,
                 habitsFound, vaultVars, cacheVars, rangeVars, parseVars, otherVars>>

NextScan == ScanBegin \/ ScanFile \/ ScanReturn

\* The ranges scan is called with: the week of the title
\* "2026.02.09 - 2026.02.15", February 2026 and the year 2026.
WeekInput ==
  [cfg |-> [type |-> Str("week"), year |-> Undefined, month |-> Undefined,
           fromTitle |-> Bool(TRUE)],
   title |-> [match |-> TRUE, s |-> IsoText(2026, 2, 9), e |-> IsoText(2026, 2, 15)]]
MonthInput ==
  [cfg |-> [type |-> Str("month"), year |-> JsInt(2026), month |-> JsInt(2),
           fromTitle |-> Bool(TRUE)],
   title |-> [match |-> FALSE]]
YearInput ==
  [cfg |-> [type |-> Str("year"), year |-> JsInt(2026), month |-> Undefined,
           fromTitle |-> Bool(TRUE)],
   title |-> [match |-> FALSE]]
ScanRanges ==
  {ResolveRange("UTC", in.cfg, in.title).range : in \in {WeekInput, MonthInput, YearInput}}

\* Paths: notes at the vault root, in a folder, below it at two depths, under a
\* Templates folder, and in a folder whose name only begins like another's.
RootNote == <<"r">>
FolderNote == <<"j", "/", "w">>
FolderOther == <<"j", "/", "x">>
NestedNote == <<"j", "/", "s", "/", "y">>
DeepNote == <<"j", "/", "s", "/", "t", "/", "z">>
TemplateNote == <<"j", "/", "T", "e", "m", "p", "l", "a", "t", "e", "s", "/", "n">>
RootTemplateNote == <<"t", "e", "m", "p", "l", "a", "t", "e", "s", "/", "u">>
SiblingNote == <<"j", "k", "/", "v">>

VaultOrder ==
  <<DeepNote, RootNote, SiblingNote, FolderNote, TemplateNote, NestedNote, FolderOther,
    RootTemplateNote>>

BlankLine == TextLine("none", <<>>)

\* vault.getMarkdownFiles() of a vault holding the paths of a set
ListedOf(paths) ==
  LET Held(path) == path \in paths
  IN  SelectSeq(VaultOrder, Held)

(***************************************************************************)
(* SpecFiles: the file selection of a scan, for every vault made of the    *)
(* paths above, every current note in it and every range type.             *)
(***************************************************************************)

InitFiles ==
  /\ \E paths \in SUBSET Elements(VaultOrder) :
       /\ markdownFiles = ListedOf(paths)
       /\ vaultFiles = [path \in paths |-> [mtime |-> 1, content |-> <<BlankLine>>]]
       /\ currentFile \in paths
  /\ range \in ScanRanges
  /\ scanPc = "start"
  /\ files = <<>>
  /\ position = 0
  /\ aggregates = EmptyMap
  /\ candidatesByDate = EmptyMap
  /\ habitsFound = {}
  /\ scanResult = Pending

(***************************************************************************)
(* SpecScan: a whole scan of a vault of three notes, one in a folder below *)
(* the others, with every content out of Documents and every order of the  *)
(* vault's listing.                                                        *)
(***************************************************************************)

InRange == Heading(2026, 2, 10)
InRangeToo == Heading(2026, 2, 11)
OutOfRange == Heading(2025, 12, 31)
Says(habit, value) == TextLine("none", <<Token(habit, value)>>)
ReadingAndWorkout == TextLine("none", <<Token(Reading, Word("yes")), Token(Workout, Numeral(JsInt(15)))>>)

\* The contents of the notes of the model, as their lines.
Documents ==
  { <<BlankLine>>,
    <<InRange>>,
    <<InRange, Says(Workout, Numeral(JsInt(20)))>>,
    <<InRange, Says(Workout, Numeral(OneTenth))>>,
    <<InRange, Says(Workout, Numeral(TwoTenths))>>,
    <<InRange, Says(Workout, Numeral(ThreeTenths))>>,
    <<InRange, ReadingAndWorkout>>,
    <<InRange, Says(Workout, Word("true")), InRange>>,
    <<InRange, Says(Workout, Word("no"))>>,
    <<OutOfRange, ReadingAndWorkout, InRange, Says(Workout, Word("true"))>>,
    <<InRange, Says(Workout, Numeral(JsInt(20))), InRangeToo, Says(Workout, Word("no"))>> }

ScanVault == {FolderNote, FolderOther, NestedNote}

\* The notes and contents of the cache specification; a note is written at
\* most MaxMtime - 1 times and at most MaxParses parses are made.
CachePaths == {FolderNote, FolderOther}
CacheDocuments ==
  { <<InRange, Says(Workout, Numeral(JsInt(20)))>>,
    <<InRange, Says(Workout, Word("true"))>> }
MaxMtime == 2
MaxParses == 3

Orderings(S) ==
  {seq \in [1..Cardinality(S) -> S] : \A i, j \in DOMAIN seq : i # j => seq[i] # seq[j]}

InitScan ==
  /\ markdownFiles \in Orderings(ScanVault)
  /\ vaultFiles \in [ScanVault -> [mtime : {1}, content : Documents]]
  /\ currentFile = FolderNote
  /\ range \in ScanRanges
  /\ scanPc = "start"
  /\ files = <<>>
  /\ position = 0
  /\ aggregates = EmptyMap
  /\ candidatesByDate = EmptyMap
  /\ habitsFound = {}
  /\ scanResult = Pending

(***************************************************************************)
(* SpecCache: the parse cache under any sequence of getParsedFile,         *)
(* invalidatePath and clear calls and of modifications of the notes.       *)
(***************************************************************************)

\* getParsedFile(file), as the loop of a scan calls it for one file
CallGetParsedFileWith(path, got) ==
  /\ cache' = got.cache
  /\ parseCount' = got.parseCount
  /\ invalidated' = Without(invalidated, path)
  /\ lastCall' = GetParsedFileCall(path, vaultFiles[path], got)
  /\ UNCHANGED <<vaultVars, scanVars, rangeVars, parseVars, otherVars>>

CallGetParsedFile ==
  \E path \in DOMAIN vaultFiles :
    /\ parseCount < MaxParses
    /\ CallGetParsedFileWith(path, GetParsedFile(cache, path, vaultFiles[path], parseCount))

\* invalidatePath(path), as the modify, delete and rename handlers call it
CallInvalidatePath ==
  \E path \in DOMAIN vaultFiles :
    /\ cache' = InvalidatePath(cache, path)
    /\ invalidated' = IF path \in DOMAIN invalidated THEN invalidated
                      ELSE MapSet(invalidated, path, MapGet(cache, path, Null))
    /\ lastCall' = [op |-> "invalidatePath", path |-> path, before |-> cache,
                    after |-> InvalidatePath(cache, path)]
    /\ UNCHANGED <<parseCount, vaultVars, scanVars, rangeVars, parseVars, otherVars>>

\* clear(), as onunload calls it
CallClear ==
  /\ cache' = Clear(cache)
  /\ lastCall' = [op |-> "clear", before |-> cache, after |-> Clear(cache)]
  /\ UNCHANGED <<parseCount, invalidated, vaultVars, scanVars, rangeVars, parseVars, otherVars>>

\* The environment: a note is written, with any content; its mtime moves on
ModifyDocument ==
  \E path \in DOMAIN vaultFiles, content \in CacheDocuments :
    /\ vaultFiles[path].mtime < MaxMtime
    /\ vaultFiles' = [vaultFiles EXCEPT
                        ![path] = [mtime |-> @.mtime + 1, content |-> content]]
    /\ UNCHANGED <<markdownFiles, cacheVars, scanVars, rangeVars, parseVars, otherVars>>

NextCache == CallGetParsedFile \/ CallInvalidatePath \/ CallClear \/ ModifyDocument

InitCache ==
  /\ markdownFiles = ListedOf(CachePaths)
  /\ vaultFiles \in [CachePaths -> [mtime : {1}, content : CacheDocuments]]
  /\ cache = EmptyMap
  /\ parseCount = 0
  /\ invalidated = EmptyMap
  /\ lastCall = Null

(***************************************************************************)
(* The scanner: the claims.  The folder of a note is taken here as the     *)
(* list of folder names on its path, and what the notes contribute is read *)
(* off their parses, without the loop of scan.                             *)
(***************************************************************************)

PathNames(path) == Split(path)
FolderNames(path) == SubSeq(PathNames(path), 1, Len(PathNames(path)) - 1)
IsIgnored(path) ==
  \E name \in Elements(PathNames(path)) : ToLowerCase(name) = TemplatesName

\* folder is the folder above, or one nested below it at any depth
InOrBelow(folder, above) ==
  Len(above) <= Len(folder) /\ SubSeq(folder, 1, Len(above)) = above

NotIgnoredNotes == {path \in DOMAIN vaultFiles : ~IsIgnored(path)}

ExpectedFiles ==
  IF range.type = "week"
  THEN (IF IsIgnored(currentFile) THEN {} ELSE {currentFile})
  ELSE IF range.type = "month"
  THEN {path \in NotIgnoredNotes : FolderNames(path) = FolderNames(currentFile)}
  ELSE {path \in NotIgnoredNotes : InOrBelow(FolderNames(path), FolderNames(currentFile))}

FilesAreExpected ==
  Elements(files) = ExpectedFiles /\ Len(files) = Cardinality(ExpectedFiles)

\* C6: the documents a scan reads are, for every location of the current
\* document, the vault root included: for a week the current document (none if
\* it is ignored); for a month the non-ignored markdown documents of the current
\* document's directory; for a year the non-ignored markdown documents of that
\* directory or of any directory nested below it.  A document is ignored iff
\* some segment of its path is "templates" in any letter case.
C6_FilesByRangeType == scanPc # "start" => FilesAreExpected

\* The same, when a year scan does not start from a note at the vault root.
FilesByRangeTypeBelowRoot ==
  (scanPc # "start" /\ ~(range.type = "year" /\ FolderNames(currentFile) = <<>>))
    => FilesAreExpected

\* The values of every scanned note: path -> date -> habit -> value, as the
\* parser gives them for the note's content.
DocumentValues ==
  [path \in Elements(files) |->
     ParseMarkdownHabits(path, vaultFiles[path].content).valuesByDateHabit]

HasDocumentValue(docs, path, date, habit) ==
  date \in DOMAIN docs[path] /\ habit \in DOMAIN docs[path][date]

\* The scanned notes that contribute a value to a habit on a date; a note
\* contributes one value, docs[path][date][habit].
Contributors(docs, date, habit) ==
  {path \in DOMAIN docs : HasDocumentValue(docs, path, date, habit)}

NumericContributors(docs, date, habit) ==
  {path \in Contributors(docs, date, habit) : docs[path][date][habit].kind = "numeric"}
BooleanContributors(docs, date, habit, b) ==
  {path \in Contributors(docs, date, habit) :
     docs[path][date][habit].kind = "boolean" /\ docs[path][date][habit].value = b}

\* The sum of the numeric contributions of a set of notes, the notes taken in
\* one fixed order that the order of the scan has no part in.
RECURSIVE SumOfContributions(_, _, _, _)
SumOfContributions(docs, date, habit, paths) ==
  IF paths = {} THEN JsInt(0)
  ELSE LET path == CHOOSE p \in paths : TRUE
       IN  NumberAdd(SumOfContributions(docs, date, habit, paths \ {path}),
                     docs[path][date][habit].value)

ExpectedAggregate(docs, date, habit) ==
  IF NumericContributors(docs, date, habit) # {}
  THEN NumericValue(SumOfContributions(docs, date, habit,
                                       NumericContributors(docs, date, habit)))
  ELSE IF BooleanContributors(docs, date, habit, TRUE) # {} THEN BooleanValue(TRUE)
  ELSE IF BooleanContributors(docs, date, habit, FALSE) # {} THEN BooleanValue(FALSE)
  ELSE Null

Aggregated(date, habit) ==
  IF habit \in DOMAIN scanResult.valuesByHabit
     /\ date \in DOMAIN scanResult.valuesByHabit[habit]
  THEN scanResult.valuesByHabit[habit][date]
  ELSE Null

\* Two resolved values, or absences of one, are the same.
SameValue(a, b) ==
  IF a = Null \/ b = Null THEN a = Null /\ b = Null
  ELSE a.kind = b.kind /\ a.value = b.value

AggregatesAgree(docs, dateSet) ==
  \A date \in dateSet, habit \in Habits :
    SameValue(Aggregated(date, habit), ExpectedAggregate(docs, date, habit))

\* C7: for every habit and in-range date the aggregated value of a finished
\* scan depends on the values the scanned documents contribute only: the sum of
\* the numeric contributions if there is one, else true if a document
\* contributes true, else false if one contributes false, else absent; so it is
\* the same for every order in which the documents are gone through.
C7_AggregateOfContributions ==
  scanPc = "done" => AggregatesAgree(DocumentValues, DateSet(scanResult.dates))

\* Whether every numeric contribution to a habit on a date is an integer.
IntegersOnly(docs, date, habit) ==
  \A path \in NumericContributors(docs, date, habit) : IsJsInt(docs[path][date][habit].value)

IntegerAggregatesAgree(docs, dateSet) ==
  \A date \in dateSet, habit \in Habits :
    IntegersOnly(docs, date, habit) =>
      SameValue(Aggregated(date, habit), ExpectedAggregate(docs, date, habit))

\* The same for the habits and dates whose numeric contributions are all
\* integers: their sums are exact, whatever the order.
AggregateOfIntegerContributions ==
  scanPc = "done" => IntegerAggregatesAgree(DocumentValues, DateSet(scanResult.dates))

\* The habits with a value, in some scanned note, on a date out of a set.
HabitsOfDocument(values, dateSet) ==
  UNION {DOMAIN values[date] : date \in {d \in DOMAIN values : d \in dateSet}}
HabitsWithValue(docs, dateSet) ==
  UNION {HabitsOfDocument(docs[path], dateSet) : path \in DOMAIN docs}

DatesOfDocuments(docs) == UNION {DOMAIN docs[path] : path \in DOMAIN docs}
HabitsOnAnyDate(docs) == HabitsWithValue(docs, DatesOfDocuments(docs))

\* C8 as stated: habitsFound of a finished scan contains every habit that has a
\* resolved value in some scanned document, whether or not the dates of its
\* values lie in the requested range.
C8_HabitsFoundAnyDate ==
  scanPc = "done" => HabitsOnAnyDate(DocumentValues) \subseteq scanResult.habitsFound

\* C8, amended: habitsFound of a finished scan is exactly the set of habits that
\* have a resolved value, in some scanned document, on a date of the requested
\* range; a habit whose values all lie on dates outside the range is not in it.
C8_HabitsFoundInRange ==
  scanPc = "done" =>
    scanResult.habitsFound = HabitsWithValue(DocumentValues, DateSet(scanResult.dates))

\* A finished scan read a note in which reading has a value on an out-of-range
\* date only: workout was found, reading was not.
C8_Witness ==
  /\ scanPc = "done"
  /\ Workout \in scanResult.habitsFound
  /\ Reading \notin scanResult.habitsFound
  /\ Reading \in HabitsOnAnyDate(DocumentValues)

(***************************************************************************)
(* The parse cache: the claims, on what the latest call saw and left.      *)
(***************************************************************************)

LastIs(op) == lastCall # Null /\ lastCall.op = op

\* The objects held by a cache.
ObjectsIn(entries) == {entries[path].parsed.ref : path \in DOMAIN entries}

\* The latest getParsedFile call found an entry stored under the note's
\* current mtime.
FoundCurrentEntry ==
  /\ lastCall.path \in DOMAIN lastCall.before
  /\ lastCall.before[lastCall.path].mtime = lastCall.file.mtime

\* The call returned the stored object itself, read and parsed nothing and
\* left the cache as it was.
ReturnedStored ==
  /\ lastCall.countAfter = lastCall.countBefore
  /\ lastCall.returned.ref = lastCall.before[lastCall.path].parsed.ref
  /\ lastCall.returned = lastCall.before[lastCall.path].parsed
  /\ lastCall.after = lastCall.before

\* The call read the content once and parsed it into a new object, which it
\* returned.
ReadAndParsedAnew ==
  /\ lastCall.countAfter = lastCall.countBefore + 1
  /\ lastCall.returned.ref \notin ObjectsIn(lastCall.before)
  /\ lastCall.returned.object = ParseMarkdownHabits(lastCall.path, lastCall.file.content)

\* The call stored {current mtime, returned parse} under the path and left
\* the other entries alone.
StoredReturned ==
  /\ DOMAIN lastCall.after = DOMAIN lastCall.before \cup {lastCall.path}
  /\ lastCall.after[lastCall.path].mtime = lastCall.file.mtime
  /\ lastCall.after[lastCall.path].parsed.ref = lastCall.returned.ref
  /\ \A path \in DOMAIN lastCall.before \ {lastCall.path} :
       lastCall.after[path] = lastCall.before[path]

\* C1: after any sequence of getParsedFile, invalidatePath, clear and
\* modifications, a getParsedFile call on a note whose path has an entry with
\* the note's current mtime returns the very object stored, without reading
\* or parsing; if the entry is absent or its mtime differs, the call reads and
\* parses the content, stores {current mtime, new parse} under the path and
\* returns that parse.
C1_CacheHitOrReparse ==
  LastIs("getParsedFile") =>
    IF FoundCurrentEntry THEN ReturnedStored
    ELSE ReadAndParsedAnew /\ StoredReturned

\* A call found an entry whose mtime is not the note's any more, and parsed anew.
C1_Witness ==
  /\ LastIs("getParsedFile")
  /\ lastCall.path \in DOMAIN lastCall.before
  /\ lastCall.before[lastCall.path].mtime # lastCall.file.mtime
  /\ lastCall.returned.ref # lastCall.before[lastCall.path].parsed.ref

\* A call returned an entry that had itself been stored after a modification.
C1_WitnessHit ==
  /\ LastIs("getParsedFile")
  /\ FoundCurrentEntry
  /\ lastCall.file.mtime > 1
  /\ lastCall.returned.ref = lastCall.before[lastCall.path].parsed.ref

\* invalidatePath took the entry of the path, if any, and nothing else.
RemovedOnlyThePath ==
  /\ DOMAIN lastCall.after = DOMAIN lastCall.before \ {lastCall.path}
  /\ \A path \in DOMAIN lastCall.after : lastCall.after[path] = lastCall.before[path]
  /\ (lastCall.path \notin DOMAIN lastCall.before => lastCall.after = lastCall.before)
  /\ InvalidatePath(lastCall.after, lastCall.path) = lastCall.after

\* C2: invalidatePath(path) removes the entry of that path and leaves every
\* other entry as it was; without an entry it changes nothing (a second call
\* changes nothing more); the next getParsedFile for the path reads and parses
\* again, also when content and mtime have not changed.  clear() leaves the
\* cache empty.
C2_InvalidateAndClear ==
  /\ LastIs("invalidatePath") => RemovedOnlyThePath
  /\ LastIs("clear") => DOMAIN lastCall.after = {}
  /\ (LastIs("getParsedFile") /\ lastCall.wasInvalidated) => ReadAndParsedAnew

\* A note was parsed, its path invalidated while another path had an entry,
\* and it was parsed again with mtime and content as before: a new object with
\* the same values, and the other entry still there.
C2_Witness ==
  /\ LastIs("getParsedFile")
  /\ lastCall.wasInvalidated
  /\ lastCall.removed # Null
  /\ lastCall.removed.mtime = lastCall.file.mtime
  /\ lastCall.removed.parsed.object = lastCall.returned.object
  /\ lastCall.removed.parsed.ref # lastCall.returned.ref
  /\ DOMAIN lastCall.before # {}

(***************************************************************************)
(* The configuration of a block (renderer: normalizeConfig and what it     *)
(* calls).  A decoded value is Undefined (the key is absent), Null,        *)
(* Bool(b), Str(text), a number, List(items) or Object(fields).  A number  *)
(* is JsInt(n), Quarters(n) for n/4 when 4 does not divide n, or           *)
(* NotANumber.  The strings whose characters the code looks at (habit      *)
(* names, colors) are sequences of characters.                             *)
(***************************************************************************)
List(items) == [list |-> items]
Object(fields) == [object |-> fields]
Quarters(n) == [quarters |-> n]
NotANumber == [nan |-> TRUE]

IsUndefined(v) == "undefined" \in DOMAIN v
IsNull(v) == "null" \in DOMAIN v
IsList(v) == "list" \in DOMAIN v
\* typeof v === "number", typeof v === "string"
TypeofNumber(v) == IsJsInt(v) \/ "quarters" \in DOMAIN v \/ "nan" \in DOMAIN v
TypeofString(v) == "str" \in DOMAIN v
\* typeof v === "object" && v != null
IsObject(v) == "object" \in DOMAIN v \/ IsList(v)

\* obj?.key
Member(obj, key) ==
  IF "object" \in DOMAIN obj /\ key \in DOMAIN obj.object THEN obj.object[key] ELSE Undefined

\* value ?? fallback
Coalesce(value, fallback) == IF IsUndefined(value) \/ IsNull(value) THEN fallback ELSE value

\* String.prototype.trim, on strings whose white space is the space character
Space == " "
RECURSIVE TrimStart(_)
TrimStart(chars) ==
  IF chars # <<>> /\ Head(chars) = Space THEN TrimStart(Tail(chars)) ELSE chars
RECURSIVE TrimEnd(_)
TrimEnd(chars) ==
  IF chars # <<>> /\ chars[Len(chars)] = Space
  THEN TrimEnd(SubSeq(chars, 1, Len(chars) - 1)) ELSE chars
Trim(chars) == TrimEnd(TrimStart(chars))

\* isLowerSnakeCase: /^[a-z0-9_]+$/
LowerSnakeCharacters ==
  {"a", "b", "c", "d", "e", "f", "g", "h", "i", "j", "k", "l", "m", "n", "o", "p", "q", "r",
   "s", "t", "u", "v", "w", "x", "y", "z", "0", "1", "2", "3", "4", "5", "6", "7", "8", "9",
   "_"}
IsLowerSnakeCase(chars) ==
  Len(chars) > 0 /\ \A i \in 1..Len(chars) : chars[i] \in LowerSnakeCharacters

\* Math.round: the nearest integer, a half going up
MathRound(v) == IF IsJsInt(v) THEN v.int ELSE (v.quarters + 2) \div 4

Smaller(a, b) == IF a < b THEN a ELSE b
Larger(a, b) == IF a > b THEN a ELSE b

\* clampNumber giving the fallback for a value outside min..max
ClampNumberOrFallback(value, min, max, fallback) ==
  IF ~TypeofNumber(value) \/ "nan" \in DOMAIN value THEN JsInt(fallback)
  ELSE IF MathRound(value) < min \/ MathRound(value) > max THEN JsInt(fallback)
  ELSE JsInt(MathRound(value))

\* clampNumber
ClampNumber(value, min, max, fallback) ==
  IF ~TypeofNumber(value) \/ "nan" \in DOMAIN value THEN JsInt(fallback)
  ELSE JsInt(Smaller(max, Larger(min, MathRound(value))))

NumericThreshold(kind, value, color) == [kind |-> kind, value |-> value, color |-> color]

\* DEFAULT_CONFIG
DefaultThresholds ==
  << NumericThreshold("le", JsInt(0), Str(<<"#", "1", "1", "1", "8", "2", "7">>)),
     NumericThreshold("le", JsInt(10), Str(<<"#", "1", "f", "2", "9", "3", "7">>)),
     NumericThreshold("le", JsInt(25), Str(<<"#", "3", "7", "4", "1", "5", "1">>)),
     NumericThreshold("le", JsInt(50), Str(<<"#", "4", "b", "5", "5", "6", "3">>)),
     NumericThreshold("gt", JsInt(50), Str(<<"#", "6", "b", "7", "2", "8", "0">>)) >>
DefaultConfig ==
  [range |-> [type |-> Str("week"), fromTitle |-> Bool(TRUE)],
   habits |-> [mode |-> Str("auto"), list |-> <<>>],
   colors |-> [noData |-> Str(<<"#", "2", "b", "2", "b", "2", "b">>),
               blankFuture |-> Str("transparent"),
               boolean |-> [true |-> Str(<<"#", "2", "2", "c", "5", "5", "e">>),
                            false |-> Str(<<"#", "e", "f", "4", "4", "4", "4">>)],
               numeric |-> [thresholds |-> DefaultThresholds]],
   display |-> [title |-> Str(""), showLegend |-> Bool(TRUE), cellSize |-> JsInt(12),
                gap |-> JsInt(2), weekStart |-> Str("Monday")]]

\* normalizeThresholds: what the loop does with one entry
KeptThreshold(entry) ==
  IF ~IsObject(entry) THEN <<>>
  ELSE IF ~TypeofString(Member(entry, "color")) THEN <<>>
  ELSE IF Len(Trim(Member(entry, "color").str)) = 0 THEN <<>>
  ELSE IF TypeofNumber(Member(entry, "le"))
       THEN <<NumericThreshold("le", Member(entry, "le"), Member(entry, "color"))>>
  ELSE IF TypeofNumber(Member(entry, "gt"))
       THEN <<NumericThreshold("gt", Member(entry, "gt"), Member(entry, "color"))>>
  ELSE <<>>

RECURSIVE KeptThresholds(_)
KeptThresholds(entries) ==
  IF entries = <<>> THEN <<>>
  ELSE KeptThreshold(Head(entries)) \o KeptThresholds(Tail(entries))

\* for (const entry of input): the items of an array, the characters of a string
EntriesOf(input) ==
  IF IsList(input) THEN input.list ELSE [i \in 1..Len(input.str) |-> Str(<<input.str[i]>>)]

NoThresholdError == [msg |-> "colors.numeric.thresholds must include at least one valid threshold"]

\* normalizeThresholds: the thresholds returned and the errors after the call
NormalizeThresholds(input, errors) ==
  IF Len(KeptThresholds(EntriesOf(input))) = 0
  THEN [thresholds |-> DefaultThresholds, errors |-> Append(errors, NoThresholdError)]
  ELSE [thresholds |-> KeptThresholds(EntriesOf(input)), errors |-> errors]

\* thresholdsInput.length > 0
HasLength(input) ==
  (IsList(input) /\ Len(input.list) > 0) \/ (TypeofString(input) /\ Len(input.str) > 0)

\* normalizeConfig, lines 451-452
ThresholdsOf(input, errors) ==
  IF HasLength(Coalesce(Member(Member(Member(input, "colors"), "numeric"), "thresholds"),
                        List(<<>>)))
  THEN NormalizeThresholds(Member(Member(Member(input, "colors"), "numeric"), "thresholds"),
                           errors)
  ELSE [thresholds |-> DefaultThresholds, errors |-> errors]

\* `${habit}`: a list item as text, for strings, null, booleans and one-digit numbers
DigitCharacters == <<"0", "1", "2", "3", "4", "5", "6", "7", "8", "9">>
TextOf(item) ==
  IF TypeofString(item) THEN item.str
  ELSE IF IsNull(item) THEN <<"n", "u", "l", "l">>
  ELSE IF "bool" \in DOMAIN item
       THEN (IF item.bool THEN <<"t", "r", "u", "e">> ELSE <<"f", "a", "l", "s", "e">>)
  ELSE <<DigitCharacters[item.int + 1]>>

IsNotEmpty(chars) == Len(chars) > 0
IsInvalidName(chars) == ~IsLowerSnakeCase(chars)

\* normalizeConfig, lines 454-457: const list, const invalidListHabits
TrimmedItems(items) == [i \in 1..Len(items) |-> Trim(TextOf(items[i]))]
ListOf(items) == SelectSeq(TrimmedItems(items), IsNotEmpty)
InvalidListHabits(list) == SelectSeq(list, IsInvalidName)

\* Array.prototype.join(", ")
RECURSIVE Join(_)
Join(names) ==
  IF names = <<>> THEN <<>>
  ELSE IF Len(names) = 1 THEN names[1]
  ELSE names[1] \o <<",", " ">> \o Join(Tail(names))

\* [...new Set(list)]: the items in the order of their first occurrence
Distinct(list) ==
  LET IsFirst(i) == \A j \in 1..(i - 1) : list[j] # list[i]
      Positions == {i \in 1..Len(list) : IsFirst(i)}
      RECURSIVE From(_)
      From(i) == IF i > Len(list) THEN <<>>
                 ELSE (IF i \in Positions THEN <<list[i]>> ELSE <<>>) \o From(i + 1)
  IN  From(1)

StrIs(v, text) == TypeofString(v) /\ v.str = text

ModeErrors(mode) ==
  IF ~StrIs(mode, "auto") /\ ~StrIs(mode, "list")
  THEN <<[msg |-> "habits.mode must be auto or list"]>> ELSE <<>>
EmptyListErrors(mode, list) ==
  IF StrIs(mode, "list") /\ Len(list) = 0
  THEN <<[msg |-> "habits.list must include at least one habit when habits.mode=list"]>>
  ELSE <<>>
InvalidNameErrors(invalid) ==
  IF Len(invalid) > 0
  THEN <<[msg |-> "habits.list contains invalid names (use lower_snake_case): ",
          names |-> Join(invalid)]>>
  ELSE <<>>
RangeTypeErrors(type) ==
  IF ~StrIs(type, "week") /\ ~StrIs(type, "month") /\ ~StrIs(type, "year")
  THEN <<[msg |-> "range.type must be week, month, or year"]>> ELSE <<>>

\* normalizeConfig, lines 471-500: const config
ConfigOf(input, thresholds, mode, list) ==
  [range |-> [type |-> Coalesce(Member(Member(input, "range"), "type"),
                                DefaultConfig.range.type),
              year |-> Member(Member(input, "range"), "year"),
              month |-> Member(Member(input, "range"), "month"),
              fromTitle |-> Coalesce(Member(Member(input, "range"), "fromTitle"),
                                     DefaultConfig.range.fromTitle)],
   habits |-> [mode |-> IF StrIs(mode, "list") THEN Str("list") ELSE Str("auto"),
               list |-> Distinct(list)],
   colors |-> [noData |-> Coalesce(Member(Member(input, "colors"), "noData"),
                                   DefaultConfig.colors.noData),
               blankFuture |-> Coalesce(Member(Member(input, "colors"), "blankFuture"),
                                        DefaultConfig.colors.blankFuture),
               boolean |->
                 [true |-> Coalesce(Member(Member(Member(input, "colors"), "boolean"), "true"),
                                    DefaultConfig.colors.boolean.true),
                  false |-> Coalesce(Member(Member(Member(input, "colors"), "boolean"), "false"),
                                     DefaultConfig.colors.boolean.false)],
               numeric |-> [thresholds |-> thresholds]],
   display |-> [title |-> Coalesce(Member(Member(input, "display"), "title"),
                                   DefaultConfig.display.title),
                showLegend |-> Coalesce(Member(Member(input, "display"), "showLegend"),
                                        DefaultConfig.display.showLegend),
                cellSize |-> ClampNumber(Member(Member(input, "display"), "cellSize"), 6, 30,
                                         DefaultConfig.display.cellSize.int),
                gap |-> ClampNumber(Member(Member(input, "display"), "gap"), 0, 8,
                                    DefaultConfig.display.gap.int),
                weekStart |-> IF StrIs(Member(Member(input, "display"), "weekStart"), "Sunday")
                              THEN Str("Sunday") ELSE Str("Monday")]]

\* normalizeConfig, lines 502-510: the last rule and the return
ConfigResult(errors, config) ==
  IF Len(errors \o RangeTypeErrors(config.range.type)) > 0
  THEN Failure(errors \o RangeTypeErrors(config.range.type))
  ELSE [ok |-> TRUE, config |-> config]

\* normalizeConfig from line 454 on, given the thresholds, the mode and the list
NormalizeWith(input, th, mode, list) ==
  ConfigResult(th.errors \o ModeErrors(mode) \o EmptyListErrors(mode, list)
                 \o InvalidNameErrors(InvalidListHabits(list)),
               ConfigOf(input, th.thresholds, mode, list))

\* (input.habits?.list ?? [])
ListInput(input) == Coalesce(Member(Member(input, "habits"), "list"), List(<<>>))

\* What a call leaves when it throws
Thrown(error) == [threw |-> error]

\* normalizeConfig: .map is a function of arrays only
NormalizeConfig(input) ==
  IF ~IsList(ListInput(input)) THEN Thrown("TypeError")
  ELSE NormalizeWith(input, ThresholdsOf(input, <<>>),
                     Coalesce(Member(Member(input, "habits"), "mode"),
                              DefaultConfig.habits.mode),
                     ListOf(ListInput(input).list))

\* value <= bound and value > bound, for an integer value and a threshold's bound
AtMost(value, bound) ==
  IF IsJsInt(bound) THEN value.int <= bound.int
  ELSE IF "quarters" \in DOMAIN bound THEN 4 * value.int <= bound.quarters
  ELSE FALSE
Above(value, bound) ==
  IF IsJsInt(bound) THEN value.int > bound.int
  ELSE IF "quarters" \in DOMAIN bound THEN 4 * value.int > bound.quarters
  ELSE FALSE

ThresholdMatches(threshold, value) ==
  \/ threshold.kind = "le" /\ AtMost(value, threshold.value)
  \/ threshold.kind = "gt" /\ Above(value, threshold.value)

\* A variant of resolveNumericColor that takes the last matching threshold.
RECURSIVE ResolveNumericColorLastMatch(_, _)
ResolveNumericColorLastMatch(thresholds, value) ==
  IF thresholds = <<>> THEN Str(<<"#", "6", "b", "7", "2", "8", "0">>)
  ELSE IF ThresholdMatches(thresholds[Len(thresholds)], value) \/ Len(thresholds) = 1
       THEN thresholds[Len(thresholds)].color
  ELSE ResolveNumericColorLastMatch(SubSeq(thresholds, 1, Len(thresholds) - 1), value)

\* resolveNumericColor: the loop from threshold i on, then the fallback
RECURSIVE ResolveNumericColorFrom(_, _, _)
ResolveNumericColorFrom(thresholds, value, i) ==
  IF i > Len(thresholds)
  THEN (IF Len(thresholds) > 0 THEN thresholds[Len(thresholds)].color
        ELSE Str(<<"#", "6", "b", "7", "2", "8", "0">>))
  ELSE IF ThresholdMatches(thresholds[i], value) THEN thresholds[i].color
  ELSE ResolveNumericColorFrom(thresholds, value, i + 1)

ResolveNumericColor(thresholds, value) == ResolveNumericColorFrom(thresholds, value, 1)

(***************************************************************************)
(* SpecConfig: normalizeConfig applied to a decoded block, then            *)
(* resolveNumericColor applied to its thresholds and a value.              *)
(***************************************************************************)

\* A configured threshold list has at most MaxEntries entries.
MaxEntries == 2

ColorA == Str(<<"#", "a">>)
ColorB == Str(<<"#", "b">>)
ColorC == Str(<<"#", "c">>)

\* The entries of the threshold lists: well-formed ones; both bounds; no bound;
\* a bound that is a string, and one beside a numeric one; a NaN bound; a color
\* that is empty, blank, missing or a number; and entries that are no objects.
ThresholdEntries ==
  { Object([le |-> JsInt(0), color |-> ColorA]),
    Object([le |-> JsInt(10), color |-> ColorB]),
    Object([gt |-> Quarters(41), color |-> ColorC]),
    Object([le |-> JsInt(10), gt |-> JsInt(0), color |-> ColorB]),
    Object([color |-> ColorA]),
    Object([le |-> Str("10"), color |-> ColorA]),
    Object([le |-> Str("10"), gt |-> JsInt(0), color |-> ColorC]),
    Object([gt |-> NotANumber, color |-> ColorA]),
    Object([le |-> JsInt(0), color |-> Str(<<>>)]),
    Object([le |-> JsInt(0), color |-> Str(<<" ", " ">>)]),
    Object([le |-> JsInt(0)]),
    Object([gt |-> JsInt(0), color |-> JsInt(7)]),
    Null,
    JsInt(5) }

ThresholdLists == UNION {[1..n -> ThresholdEntries] : n \in 0..MaxEntries}

\* colors: absent; a list of entries; a string and a number in the place of the
\* list; the ladder of the README
ReadmeLadder ==
  List(<< Object([le |-> JsInt(0), color |-> DefaultThresholds[1].color]),
          Object([le |-> JsInt(10), color |-> DefaultThresholds[2].color]),
          Object([le |-> JsInt(25), color |-> DefaultThresholds[3].color]),
          Object([le |-> JsInt(50), color |-> DefaultThresholds[4].color]),
          Object([gt |-> JsInt(50), color |-> DefaultThresholds[5].color]) >>)
WithThresholds(value) == Object([numeric |-> Object([thresholds |-> value])])
ThresholdInputs ==
  {List(entries) : entries \in ThresholdLists} \cup {Str(<<"a", "b">>), JsInt(3), ReadmeLadder}
ColorsInputs == {Undefined} \cup {WithThresholds(value) : value \in ThresholdInputs}
FewColorsInputs ==
  { Undefined,
    WithThresholds(List(<<Object([color |-> ColorA])>>)),
    WithThresholds(List(<<Object([gt |-> JsInt(0), color |-> ColorA]),
                          Object([le |-> JsInt(0), color |-> ColorB])>>)) }

\* range: absent; week with fromTitle absent, true, false, null and "true";
\* month and year; an unknown type; no type
RangeConfigInputs ==
  { Undefined,
    Object([type |-> Str("week")]),
    Object([type |-> Str("week"), fromTitle |-> Bool(TRUE)]),
    Object([type |-> Str("week"), fromTitle |-> Bool(FALSE)]),
    Object([type |-> Str("week"), fromTitle |-> Null]),
    Object([type |-> Str("week"), fromTitle |-> Str("true")]),
    Object([type |-> Str("month"), year |-> JsInt(2026), month |-> JsInt(2)]),
    Object([type |-> Str("year"), year |-> JsInt(2026)]),
    Object([type |-> Str("day")]),
    Object([fromTitle |-> Bool(FALSE)]) }

NameWorkout == Str(<<"w", "o", "r", "k", "o", "u", "t">>)
NameCapital == Str(<<"W", "o", "r", "k", "o", "u", "t">>)
NamePadded == Str(<<" ", "r", "e", "a", "d", "_", "2", " ">>)
NameDashed == Str(<<"r", "e", "a", "d", "-", "2">>)

\* habits: absent; each mode with and without a list; names that conform, that
\* do not, that repeat, that are blank; items that are no strings; a list that
\* is a string
HabitsInputs ==
  { Undefined,
    Object([mode |-> Str("auto")]),
    Object([mode |-> Str("list")]),
    Object([mode |-> Str("weekly")]),
    Object([mode |-> Str("list"), list |-> List(<<NameWorkout>>)]),
    Object([mode |-> Str("list"), list |-> List(<<NameCapital>>)]),
    Object([mode |-> Str("list"),
            list |-> List(<<NameWorkout, NameCapital, NamePadded, NameDashed, NameWorkout>>)]),
    Object([mode |-> Str("list"), list |-> List(<<NamePadded, NameWorkout, NamePadded>>)]),
    Object([mode |-> Str("list"), list |-> List(<<Str(<<>>), Str(<<" ">>)>>)]),
    Object([mode |-> Str("list"), list |-> List(<<Null, Bool(TRUE), JsInt(7)>>)]),
    Object([mode |-> Str("list"), list |-> NameWorkout]),
    Object([mode |-> Str("auto"), list |-> List(<<NameCapital>>)]),
    Object([list |-> List(<<NameWorkout>>)]) }

\* display.cellSize and display.gap: absent, integers and fractions inside,
\* at the ends of and outside the ranges, NaN, a string
SizeInputs ==
  { Undefined, JsInt(12), JsInt(6), JsInt(30), JsInt(0), JsInt(8), JsInt(5), JsInt(31),
    JsInt(-3), Quarters(50), Quarters(49), Quarters(22), Quarters(121), Quarters(123),
    Quarters(-1), Quarters(33), NotANumber, Str("12") }
DisplayInputs ==
  {Undefined, Object([weekStart |-> Str("Sunday")])}
  \cup {Object([cellSize |-> c, gap |-> g]) : c, g \in SizeInputs}

Block(r, h, c, d) == Object([range |-> r, habits |-> h, colors |-> c, display |-> d])

\* The blocks of the model: every range with every habits and a few colors;
\* every colors and every display with the rest absent or in error.
ConfigInputs ==
  {Block(r, h, c, Undefined) : r \in RangeConfigInputs, h \in HabitsInputs,
                                 c \in FewColorsInputs}
  \cup {Block(r, Undefined, c, Undefined) :
          r \in {Undefined, Object([type |-> Str("day")])}, c \in ColorsInputs}
  \cup {Block(Undefined, h, Undefined, d) :
          h \in {Undefined, Object([mode |-> Str("weekly")])}, d \in DisplayInputs}
  \cup {Object(<<>>)}

\* The values whose color is resolved
NumericValues == {JsInt(-3), JsInt(0), JsInt(5), JsInt(10), JsInt(11), JsInt(51), JsInt(1000000)}

IdleConfig ==
  /\ rawConfig = Null
  /\ configResult = Pending
  /\ numericValue = Null
  /\ numericColor = Null

InitConfig ==
  /\ rawConfig \in ConfigInputs
  /\ configResult = Pending
  /\ numericValue = Null
  /\ numericColor = Null

\* render calls normalizeConfig(parsed.value)
DoNormalizeConfig ==
  /\ rawConfig # Null
  /\ configResult = Pending
  /\ configResult' = NormalizeConfig(rawConfig)
  /\ UNCHANGED <<rawConfig, numericValue, numericColor, renderVars, rangeVars, parseVars,
                 vaultVars, cacheVars, scanVars, laterVars>>

\* resolveCell calls resolveNumericColor(config.colors.numeric.thresholds, value.value)
DoResolveNumericColor ==
  /\ "ok" \in DOMAIN configResult
  /\ configResult.ok
  /\ numericValue = Null
  /\ \E value \in NumericValues :
       /\ numericValue' = value
       /\ numericColor' =
            ResolveNumericColor(configResult.config.colors.numeric.thresholds, value)
  /\ UNCHANGED <<rawConfig, configResult, renderVars, rangeVars, parseVars, vaultVars,
                 cacheVars, scanVars, laterVars>>

NextConfig == DoNormalizeConfig \/ DoResolveNumericColor

(***************************************************************************)
(* The configuration: the claims.                                          *)
(***************************************************************************)

Normalized == "ok" \in DOMAIN configResult /\ configResult.ok
Rejected == "ok" \in DOMAIN configResult /\ ~configResult.ok
Thresholds == configResult.config.colors.numeric.thresholds

\* What the block configures as colors.numeric.thresholds, and its entries
\* when it is a list.
ConfiguredThresholds == Member(Member(Member(rawConfig, "colors"), "numeric"), "thresholds")
ConfiguredEntries ==
  IF IsList(ConfiguredThresholds) THEN ConfiguredThresholds.list ELSE <<>>

\* The threshold says what the entry configures: its color and its le or gt bound.
Corresponds(threshold, entry) ==
  /\ "object" \in DOMAIN entry
  /\ Member(entry, "color") = threshold.color
  /\ Member(entry, threshold.kind) = threshold.value

\* The thresholds are taken from entries of the list, in the order of the list.
InConfiguredOrder(thresholds, entries) ==
  \E at \in [1..Len(thresholds) -> 1..Len(entries)] :
    /\ \A k \in 1..Len(thresholds) : Corresponds(thresholds[k], entries[at[k]])
    /\ \A k \in 1..(Len(thresholds) - 1) : at[k] < at[k + 1]

Matching(thresholds, value) ==
  {i \in 1..Len(thresholds) :
     \/ thresholds[i].kind = "le" /\ AtMost(value, thresholds[i].value)
     \/ thresholds[i].kind = "gt" /\ Above(value, thresholds[i].value)}
Lowest(S) == CHOOSE i \in S : \A j \in S : i <= j

FirstMatchOrLast(thresholds, value, color) ==
  IF Matching(thresholds, value) # {}
  THEN color = thresholds[Lowest(Matching(thresholds, value))].color
  ELSE color = thresholds[Len(thresholds)].color

\* The example ladder [le 0, le 10, le 25, le 50, gt 50]: -3, 10, 51 and
\* 1000000 take the colors of the 1st, 2nd, 5th and 5th threshold.
LadderExample(thresholds, value, color) ==
  /\ value = JsInt(-3) => color = thresholds[1].color
  /\ value = JsInt(10) => color = thresholds[2].color
  /\ value = JsInt(51) => color = thresholds[5].color
  /\ value = JsInt(1000000) => color = thresholds[5].color

\* C12: the color of a numeric value is that of the first threshold of the
\* list, in its configured order, whose comparison holds (le: value <= bound,
\* gt: value > bound), and that of the last threshold when none holds; the
\* ladder [le 0, le 10, le 25, le 50, gt 50] gives -3, 10, 51 and 1000000 its
\* 1st, 2nd, 5th and 5th color; and the normalized thresholds stand in the
\* order of the configured entries they are kept from.
C12_FirstMatchWins ==
  /\ (Normalized /\ ConfiguredEntries # <<>>) =>
       InConfiguredOrder(Thresholds, ConfiguredEntries)
  /\ numericValue # Null =>
       /\ FirstMatchOrLast(Thresholds, numericValue, numericColor)
       /\ Thresholds = DefaultThresholds =>
            LadderExample(Thresholds, numericValue, numericColor)

\* Two thresholds kept in an order that is not that of their bounds, and a value
\* that both match: the first one gives the color.
C12_Witness ==
  /\ numericValue # Null
  /\ Len(Thresholds) = 2
  /\ Thresholds[1].color # Thresholds[2].color
  /\ Matching(Thresholds, numericValue) = {1, 2}
  /\ Thresholds[1].kind = "le" /\ Thresholds[2].kind = "le"
  /\ Thresholds[1].value.int > Thresholds[2].value.int
  /\ numericColor = Thresholds[1].color

\* No threshold matches (a single le 0 and the value 5): the last color is used.
C12_WitnessFallback ==
  /\ numericValue = JsInt(5)
  /\ Len(Thresholds) = 1
  /\ Thresholds[1].kind = "le" /\ Thresholds[1].value = JsInt(0)
  /\ numericColor = Thresholds[1].color

\* What the block configures as habits.mode, habits.list and range.type, with
\* the defaults of an absent key; the items of the list, as texts.
ConfiguredMode == Coalesce(Member(Member(rawConfig, "habits"), "mode"), Str("auto"))
ConfiguredType == Coalesce(Member(Member(rawConfig, "range"), "type"), Str("week"))
ConfiguredList == ListInput(rawConfig)
ConfiguredItems == IF IsList(ConfiguredList) THEN ConfiguredList.list ELSE <<>>
EntryTexts == [i \in 1..Len(ConfiguredItems) |-> TextOf(ConfiguredItems[i])]
TrimmedTexts == SelectSeq([i \in 1..Len(EntryTexts) |-> Trim(EntryTexts[i])], IsNotEmpty)

\* The rules of normalization and the message of each.
ModeMessage == "habits.mode must be auto or list"
EmptyListMessage == "habits.list must include at least one habit when habits.mode=list"
NamesMessage == "habits.list contains invalid names (use lower_snake_case): "
TypeMessage == "range.type must be week, month, or year"
RuleMessages == {ModeMessage, EmptyListMessage, NamesMessage, TypeMessage, NoThresholdError.msg}

RuleViolated(message, texts) ==
  IF message = ModeMessage THEN ConfiguredMode \notin {Str("auto"), Str("list")}
  ELSE IF message = EmptyListMessage THEN ConfiguredMode = Str("list") /\ texts = <<>>
  ELSE IF message = NamesMessage THEN SelectSeq(texts, IsInvalidName) # <<>>
  ELSE IF message = TypeMessage
       THEN ConfiguredType \notin {Str("week"), Str("month"), Str("year")}
  ELSE /\ HasLength(Coalesce(ConfiguredThresholds, List(<<>>)))
       /\ KeptThresholds(EntriesOf(ConfiguredThresholds)) = <<>>

ErrorsWith(result, message) == {i \in DOMAIN result.errors : result.errors[i].msg = message}

\* A result is a configuration without errors or errors without a configuration.
IsConfigOnly(result) == DOMAIN result = {"ok", "config"} /\ result.ok
IsErrorsOnly(result) == DOMAIN result = {"ok", "errors"} /\ ~result.ok /\ Len(result.errors) > 0

\* Every violated rule has its error in the list, once, and no other rule has one.
AllViolationsReported(result, texts) ==
  /\ \A message \in RuleMessages :
       Cardinality(ErrorsWith(result, message)) = IF RuleViolated(message, texts) THEN 1 ELSE 0
  /\ \A i \in DOMAIN result.errors : result.errors[i].msg \in RuleMessages

\* The names error lists every non-conforming entry, comma-joined.
NamesAllListed(result, texts) ==
  \A i \in ErrorsWith(result, NamesMessage) :
    result.errors[i].names = Join(SelectSeq(texts, IsInvalidName))

NormalizeContract(result, texts) ==
  /\ "ok" \in DOMAIN result
  /\ IF result.ok
     THEN /\ IsConfigOnly(result)
          /\ \A message \in RuleMessages : ~RuleViolated(message, texts)
          /\ \A i \in DOMAIN result.config.habits.list :
               IsLowerSnakeCase(result.config.habits.list[i])
     ELSE /\ IsErrorsOnly(result)
          /\ AllViolationsReported(result, texts)
          /\ NamesAllListed(result, texts)

\* C13: normalizeConfig returns either a complete configuration and no errors, or
\* errors and no configuration; every violated rule has its error in the one
\* list; with habits.mode = list an entry that does not match [a-z0-9_]+ gives
\* an error naming every such entry, comma-joined, and no configuration; so the
\* names of a normalized list all match [a-z0-9_]+.
C13_AllErrorsOrConfig ==
  configResult # Pending => NormalizeContract(configResult, EntryTexts)

\* The same for the blocks whose habits.list is a list or absent, an entry being
\* judged after it is trimmed and the blank entries being left out.
NormalizeContractOfLists ==
  (configResult # Pending /\ IsList(ConfiguredList)) =>
    NormalizeContract(configResult, TrimmedTexts)

\* Three rules violated at once, each with its error; and a list in mode list
\* with several non-conforming names.
SeveralErrorsReported ==
  /\ Rejected
  /\ Len(configResult.errors) >= 3
  /\ ErrorsWith(configResult, NamesMessage) # {}
  /\ Len(SelectSeq(TrimmedTexts, IsInvalidName)) >= 2

HasNumeric(entry, bound) == TypeofNumber(Member(entry, bound))
HasColor(entry) == TypeofString(Member(entry, "color")) /\ Len(Member(entry, "color").str) > 0
HasInkedColor(entry) ==
  /\ TypeofString(Member(entry, "color"))
  /\ \E i \in DOMAIN Member(entry, "color").str : Member(entry, "color").str[i] # Space

\* An entry with a non-empty color string and exactly one numeric bound.
IsWellFormedEntry(entry) ==
  /\ "object" \in DOMAIN entry
  /\ HasColor(entry)
  /\ HasNumeric(entry, "le") # HasNumeric(entry, "gt")

\* An entry with a color string that is not blank and a numeric bound.
IsUsableEntry(entry) ==
  /\ "object" \in DOMAIN entry
  /\ HasInkedColor(entry)
  /\ (HasNumeric(entry, "le") \/ HasNumeric(entry, "gt"))

\* The threshold an entry configures, le before gt.
ThresholdOfEntry(entry) ==
  IF HasNumeric(entry, "le")
  THEN NumericThreshold("le", Member(entry, "le"), Member(entry, "color"))
  ELSE NumericThreshold("gt", Member(entry, "gt"), Member(entry, "color"))

ThresholdsOfEntries(entries) == [i \in 1..Len(entries) |-> ThresholdOfEntry(entries[i])]

\* Of a non-empty configured list: the kept entries are those that Keep accepts,
\* nothing else is kept and no error is added for a dropped one; when none is
\* kept, one error is added.
ErrorsOf(result) == IF result.ok THEN <<>> ELSE result.errors

ThresholdsKept(result, entries, Keep(_)) ==
  /\ Cardinality({i \in DOMAIN ErrorsOf(result) : ErrorsOf(result)[i] = NoThresholdError}) =
       IF SelectSeq(entries, Keep) = <<>> THEN 1 ELSE 0
  /\ result.ok =>
       result.config.colors.numeric.thresholds = ThresholdsOfEntries(SelectSeq(entries, Keep))

\* C14: a configured threshold entry is kept iff it has a non-empty color string
\* and exactly one of a numeric le and a numeric gt bound; every other entry is
\* dropped without an error; a non-empty configured list of which no entry is
\* left adds exactly one error.
C14_ThresholdEntryShape ==
  ("ok" \in DOMAIN configResult /\ ConfiguredEntries # <<>>) =>
    ThresholdsKept(configResult, ConfiguredEntries, IsWellFormedEntry)

\* The same with the entries the loop keeps: a color string that is not blank
\* and a numeric le bound or, without one, a numeric gt bound.
ThresholdsKeptWhenUsable ==
  ("ok" \in DOMAIN configResult /\ ConfiguredEntries # <<>>) =>
    ThresholdsKept(configResult, ConfiguredEntries, IsUsableEntry)

\* ---- display.cellSize and display.gap ----

ConfiguredSize(key) == Member(Member(rawConfig, "display"), key)
NormalizedSize(key) == configResult.config.display[key]

IsNumeric(value) == TypeofNumber(value) /\ "nan" \notin DOMAIN value

\* Four times a number, an integer for the numbers of the model.
TimesFour(value) == IF IsJsInt(value) THEN 4 * value.int ELSE value.quarters

IsWithin(value, min, max) == 4 * min <= TimesFour(value) /\ TimesFour(value) <= 4 * max

\* The integer of min..max nearest to the rounded value.
NearestWithin(value, min, max) ==
  CHOOSE n \in min..max :
    \A other \in min..max :
      (IF n > MathRound(value) THEN n - MathRound(value) ELSE MathRound(value) - n)
        <= (IF other > MathRound(value) THEN other - MathRound(value)
            ELSE MathRound(value) - other)

\* A numeric input inside the range gives its nearest integer, every other input
\* the default.
DefaultedSize(value, min, max, default) ==
  IF IsNumeric(value) /\ IsWithin(value, min, max) THEN JsInt(MathRound(value))
  ELSE JsInt(default)

\* A numeric input gives the integer of the range nearest to its rounded value,
\* every other input the default.
ClampedSize(value, min, max, default) ==
  IF IsNumeric(value) THEN JsInt(NearestWithin(value, min, max)) ELSE JsInt(default)

\* The block without its display section.
WithoutDisplay ==
  IF IsObject(rawConfig) /\ "display" \in DOMAIN rawConfig.object
  THEN Object([rawConfig.object EXCEPT !.display = Undefined])
  ELSE rawConfig

\* The sizes add no error: the result is a configuration or the errors of the
\* block without its display section.
SizesAddNoError ==
  /\ "ok" \in DOMAIN configResult
  /\ configResult.ok = NormalizeConfig(WithoutDisplay).ok
  /\ ~configResult.ok => configResult.errors = NormalizeConfig(WithoutDisplay).errors

\* C15 as stated: the sizes add no error; an input inside the range gives its
\* nearest integer; a non-numeric input and one outside the range give the
\* default, 12 of 6..30 for cellSize and 2 of 0..8 for gap.
C15_SizesDefaulted ==
  (configResult # Pending /\ IsList(ListInput(rawConfig))) =>
    /\ SizesAddNoError
    /\ Normalized =>
         /\ NormalizedSize("cellSize") = DefaultedSize(ConfiguredSize("cellSize"), 6, 30, 12)
         /\ NormalizedSize("gap") = DefaultedSize(ConfiguredSize("gap"), 0, 8, 2)

\* C15 amended: the sizes add no error; a numeric input is rounded and then
\* clamped into the range, so that an input outside the range gives the nearest
\* end of the range; only an input that is not a number gives the default.
C15_SizesClamped ==
  (configResult # Pending /\ IsList(ListInput(rawConfig))) =>
    /\ SizesAddNoError
    /\ Normalized =>
         /\ NormalizedSize("cellSize") = ClampedSize(ConfiguredSize("cellSize"), 6, 30, 12)
         /\ NormalizedSize("gap") = ClampedSize(ConfiguredSize("gap"), 0, 8, 2)

\* A cell size above its range with a gap below its range, clamped to the ends.
C15_Witness ==
  /\ Normalized
  /\ ConfiguredSize("cellSize") = JsInt(31) /\ NormalizedSize("cellSize") = JsInt(30)
  /\ ConfiguredSize("gap") = JsInt(-3) /\ NormalizedSize("gap") = JsInt(0)

\* A fraction rounded up to the next integer, and inputs that are not numbers.
C15_WitnessRounded ==
  /\ Normalized
  /\ ConfiguredSize("cellSize") = Quarters(50) /\ NormalizedSize("cellSize") = JsInt(13)
  /\ ConfiguredSize("gap") = Str("12") /\ NormalizedSize("gap") = JsInt(2)

IdleRender ==
  /\ source = Null
  /\ sourceFile = Null
  /\ renderPc = "idle"
  /\ decoded = Pending
  /\ shown = Pending

IdleNearest ==
  /\ nearestContent = <<>>
  /\ nearestDate = Null
  /\ nearestResult = Pending

IdleScans ==
  /\ scans = EmptyMap
  /\ stores = {}
  /\ unstored = {}

IdlePlugin ==
  /\ loaded = FALSE
  /\ refreshTimer = Null
  /\ timeouts = {}
  /\ timerCount = 0
  /\ refreshes = 0
  /\ eventCount = 0
  /\ unrefreshed = 0
  /\ lastEvent = Null
  /\ written = EmptyMap

IdleLater == IdleNearest /\ IdleScans /\ IdlePlugin
IdleOthers == IdleConfig /\ IdleRender /\ IdleLater


(***************************************************************************)
(* HabitHeatmapRenderer.render: one call, from the lookup of the note to   *)
(* what is put into the element.  The text of the block is the list of its *)
(* lines, a line being its indentation, its key and the scalar after it.   *)
(***************************************************************************)

YamlLine(indent, key, scalar) == [indent |-> indent, key |-> key, scalar |-> scalar]
PlainLine(text) == YamlLine(0, "", text)
EmptyLine == PlainLine("")

IsEmptyLine(line) == line.key = "" /\ line.scalar = ""

\* source.trim(): the text without the empty lines at its ends
TrimSource(text) ==
  LET Inked == {i \in DOMAIN text : ~IsEmptyLine(text[i])}
  IN  IF Inked = {} THEN <<>>
      ELSE SubSeq(text, CHOOSE i \in Inked : \A j \in Inked : i <= j,
                        CHOOSE i \in Inked : \A j \in Inked : i >= j)

\* The one-line texts that start with "{" or "[", and what JSON.parse makes of
\* them.
JsonTexts == {"[1, 2]", "{", "{}"}
JsonParse(text) ==
  CASE text = "[1, 2]" -> List(<<JsInt(1), JsInt(2)>>)
    [] text = "{}" -> Object(EmptyMap)
    [] text = "{" -> Thrown("Unexpected end of JSON input")

\* parseYaml on a scalar: the value the text stands for
ScalarValue(text) ==
  CASE text = "true" -> Bool(TRUE)
    [] text = "false" -> Bool(FALSE)
    [] text \in {"", "~", "null"} -> Null
    [] text = "'true'" -> Str("true")
    [] text = "2026" -> JsInt(2026)
    [] text = "2" -> JsInt(2)
    [] text = "[workout]" -> List(<<NameWorkout>>)
    [] text = "workout" -> NameWorkout
    [] OTHER -> Str(text)

\* parseYaml on a mapping: the lines below a key that are indented under it
NestedLines(text, i) ==
  {j \in DOMAIN text : j > i /\ \A k \in (i + 1)..j : text[k].indent > 0}

LineOfKey(text, indices, key) == CHOOSE i \in indices : text[i].key = key

NestedMapping(text, indices) ==
  Object([key \in {text[i].key : i \in indices} |->
            ScalarValue(text[LineOfKey(text, indices, key)].scalar)])

YamlValue(text, i) ==
  IF text[i].scalar # "" THEN ScalarValue(text[i].scalar)
  ELSE IF NestedLines(text, i) = {} THEN Null
  ELSE NestedMapping(text, NestedLines(text, i))

TopLines(text) == {i \in DOMAIN text : text[i].indent = 0}

\* parseYaml: a scalar for a text without a key, a mapping otherwise
ParseYaml(text) ==
  IF Len(text) = 1 /\ text[1].key = "" THEN ScalarValue(text[1].scalar)
  ELSE Object([key \in {text[i].key : i \in TopLines(text)} |->
                 YamlValue(text, LineOfKey(text, TopLines(text), key))])

\* trimmed.startsWith("{") || trimmed.startsWith("[") ? JSON.parse : parseYaml
ParseText(text) ==
  IF text[1].key = "" /\ text[1].scalar \in JsonTexts THEN JsonParse(text[1].scalar)
  ELSE ParseYaml(text)

\* parseConfig, from the try on
ParseConfigOf(value) ==
  IF "threw" \in DOMAIN value
  THEN [ok |-> FALSE, error |-> [msg |-> "Failed to parse config: ", message |-> value.threw]]
  ELSE IF "object" \notin DOMAIN value
  THEN [ok |-> FALSE, error |-> [msg |-> "Config must be an object (JSON/YAML mapping)."]]
  ELSE [ok |-> TRUE, value |-> value]

\* parseConfig
ParseConfig(text) ==
  IF Len(TrimSource(text)) = 0 THEN [ok |-> TRUE, value |-> Object(EmptyMap)]
  ELSE ParseConfigOf(ParseText(TrimSource(text)))

\* The habit names of the notes in the order of localeCompare.
HabitsByLocale == <<Reading, Workout>>

\* [...scan.habitsFound].sort((a, b) => a.localeCompare(b))
SortedHabits(found) ==
  LET Found(habit) == habit \in found
  IN  SelectSeq(HabitsByLocale, Found)

ConformingNames(list) ==
  LET Conforms(habit) == IsLowerSnakeCase(habit)
  IN  SelectSeq(list, Conforms)

\* resolveHabitList
ResolveHabitList(config, scan) ==
  IF config.habits.mode = Str("list") THEN Distinct(ConformingNames(config.habits.list))
  ELSE SortedHabits(scan.habitsFound)

\* renderError: the list of the errors; renderInfo; renderHeatmap
ErrorBox(errors) == [errors |-> errors]
InfoBox(message) == [info |-> message]
Heatmap(habits, dates) == [habits |-> habits, dates |-> dates]

IsTFile(file) == "basename" \in DOMAIN file

RenderScannerVars == <<vaultVars, cacheVars, scanVars, parseVars, laterVars>>

\* render, lines 61-65
RenderCheckFile ==
  /\ renderPc = "start"
  /\ IF IsTFile(sourceFile)
     THEN renderPc' = "file" /\ shown' = shown
     ELSE /\ renderPc' = "done"
          /\ shown' = ErrorBox(<<[msg |-> "Heatmap can only render inside markdown files."]>>)
  /\ UNCHANGED <<source, sourceFile, decoded, configVars, rangeVars, RenderScannerVars>>

\* render, lines 67-71
RenderParseConfig ==
  /\ renderPc = "file"
  /\ decoded' = ParseConfig(source)
  /\ IF decoded'.ok
     THEN renderPc' = "decoded" /\ shown' = shown /\ rawConfig' = decoded'.value
     ELSE /\ renderPc' = "done"
          /\ shown' = ErrorBox(<<decoded'.error>>)
          /\ rawConfig' = rawConfig
  /\ UNCHANGED <<source, sourceFile, configResult, numericValue, numericColor, rangeVars,
                 RenderScannerVars>>

\* render, lines 73-77; a call that throws rejects the promise of render
RenderNormalizeConfig ==
  /\ renderPc = "decoded"
  /\ configResult' = NormalizeConfig(rawConfig)
  /\ IF "threw" \in DOMAIN configResult'
     THEN renderPc' = "rejected" /\ shown' = shown /\ UNCHANGED <<rangeConfig, basename>>
     ELSE IF configResult'.ok
     THEN /\ renderPc' = "normalized"
          /\ shown' = shown
          /\ rangeConfig' = configResult'.config.range
          /\ basename' = sourceFile.basename
     ELSE /\ renderPc' = "done"
          /\ shown' = ErrorBox(configResult'.errors)
          /\ UNCHANGED <<rangeConfig, basename>>
  /\ UNCHANGED <<source, sourceFile, decoded, rawConfig, numericValue, numericColor, timezone,
                 rangeResult, RenderScannerVars>>

\* render, lines 79-85: resolveRange, and the call of scanner.scan
RenderResolveRange ==
  /\ renderPc = "normalized"
  /\ rangeResult' = ResolveRange(timezone, rangeConfig, basename)
  /\ IF rangeResult'.ok
     THEN /\ renderPc' = "scan"
          /\ shown' = shown
          /\ currentFile' = sourceFile.path
          /\ range' = rangeResult'.range
     ELSE /\ renderPc' = "done"
          /\ shown' = ErrorBox(rangeResult'.errors)
          /\ UNCHANGED <<currentFile, range>>
  /\ UNCHANGED <<source, sourceFile, decoded, configVars, timezone, rangeConfig, basename,
                 scanPc, files, position, aggregates, candidatesByDate, habitsFound,
                 scanResult, vaultVars, cacheVars, parseVars, laterVars>>

\* render, lines 85-100, once the scan has returned
RenderScanned ==
  /\ renderPc = "scan"
  /\ scanPc = "done"
  /\ renderPc' = "done"
  /\ shown' = IF Len(ResolveHabitList(configResult.config, scanResult)) = 0
              THEN InfoBox("No habits found in range")
              ELSE Heatmap(ResolveHabitList(configResult.config, scanResult), range.dates)
  /\ UNCHANGED <<source, sourceFile, decoded, configVars, rangeVars, RenderScannerVars>>

NextRender ==
  \/ RenderCheckFile
  \/ RenderParseConfig
  \/ RenderNormalizeConfig
  \/ RenderResolveRange
  \/ ScanBegin
  \/ ScanFile
  \/ ScanReturn
  \/ RenderScanned

\* The blocks of the model.
RangeLines(type) == <<YamlLine(0, "range", ""), YamlLine(2, "type", type)>>
WeekLines == RangeLines("week")
Sources ==
  { <<>>,
    <<EmptyLine, EmptyLine>>,
    WeekLines,
    <<EmptyLine>> \o WeekLines \o <<EmptyLine>>,
    WeekLines \o <<YamlLine(2, "fromTitle", "true")>>,
    WeekLines \o <<YamlLine(2, "fromTitle", "false")>>,
    WeekLines \o <<YamlLine(2, "fromTitle", "'true'")>>,
    WeekLines \o <<YamlLine(2, "fromTitle", "")>>,
    <<YamlLine(0, "range", ""), YamlLine(2, "fromTitle", "false")>>,
    <<YamlLine(0, "range", "")>>,
    <<YamlLine(0, "range", "week")>>,
    RangeLines("month") \o <<YamlLine(2, "year", "2026"), YamlLine(2, "month", "2")>>,
    RangeLines("month"),
    RangeLines("year") \o <<YamlLine(2, "year", "2026")>>,
    RangeLines("day"),
    RangeLines("day") \o <<YamlLine(0, "habits", ""), YamlLine(2, "mode", "list")>>,
    RangeLines("year") \o <<YamlLine(2, "year", "2026"), YamlLine(0, "habits", ""),
                            YamlLine(2, "mode", "list"), YamlLine(2, "list", "[workout]")>>,
    <<YamlLine(0, "habits", ""), YamlLine(2, "mode", "list"), YamlLine(2, "list", "workout")>>,
    <<PlainLine("[1, 2]")>>,
    <<PlainLine("{")>>,
    <<PlainLine("{}")>>,
    <<PlainLine("week")>>,
    <<PlainLine("null")>> }

\* What ctx.sourcePath names: nothing, a folder, or a note with a week title,
\* with a title of six days or with another title.
SourceFiles ==
  { Null,
    [folder |-> <<"j">>],
    [path |-> FolderNote, basename |-> WeekInput.title],
    [path |-> FolderNote,
     basename |-> [match |-> TRUE, s |-> IsoText(2026, 2, 9), e |-> IsoText(2026, 2, 14)]],
    [path |-> FolderNote, basename |-> [match |-> FALSE]] }

RenderVault == {FolderNote, FolderOther}
RenderDocuments ==
  { <<BlankLine>>,
    <<InRange, Says(Workout, Numeral(JsInt(20)))>>,
    <<InRange, ReadingAndWorkout>> }

InitRender ==
  /\ source \in Sources
  /\ sourceFile \in SourceFiles
  /\ renderPc = "start"
  /\ decoded = Pending
  /\ shown = Pending
  /\ timezone \in Timezones
  /\ rangeConfig = Null
  /\ basename = Null
  /\ rangeResult = Pending
  /\ markdownFiles = ListedOf(RenderVault)
  /\ vaultFiles \in [RenderVault -> [mtime : {1}, content : RenderDocuments]]


(***************************************************************************)
(* Specifications.                                                         *)
(***************************************************************************)
(* findNearestHeading (renderer): the heading of a note nearest to a date. *)
(* The content is the list of its lines, as the parser's.                  *)
(***************************************************************************)

Abs(n) == IF n < 0 THEN 0 - n ELSE n

\* Math.abs(headingDate.getTime() - target.getTime())
TimeBetween(zone, headingDate, target) ==
  Abs(GetTime(zone, headingDate.int) - GetTime(zone, target.int))

\* findNearestHeading, the loop from line i on: the line it ends with, exactLine
\* if it breaks and nearestLine otherwise.  nearestDiff is Null as long as it is
\* Number.MAX_SAFE_INTEGER, which is above every difference of two dates.
RECURSIVE NearestLineFrom(_, _, _, _, _, _, _)
NearestLineFrom(zone, content, date, target, i, nearestLine, nearestDiff) ==
  IF i > Len(content) THEN nearestLine
  ELSE IF ~IsHeadingShape(content[i])
  THEN NearestLineFrom(zone, content, date, target, i + 1, nearestLine, nearestDiff)
  ELSE IF NormalizeIsoDate(content[i].heading) = Null
  THEN NearestLineFrom(zone, content, date, target, i + 1, nearestLine, nearestDiff)
  ELSE IF NormalizeIsoDate(content[i].heading) = date THEN JsInt(i)
  ELSE IF ParseIsoDate(NormalizeIsoDate(content[i].heading)) = Null
  THEN NearestLineFrom(zone, content, date, target, i + 1, nearestLine, nearestDiff)
  ELSE IF \/ nearestDiff = Null
          \/ TimeBetween(zone, ParseIsoDate(NormalizeIsoDate(content[i].heading)), target)
               < nearestDiff.int
  THEN NearestLineFrom(zone, content, date, target, i + 1, JsInt(i),
         JsInt(TimeBetween(zone, ParseIsoDate(NormalizeIsoDate(content[i].heading)), target)))
  ELSE NearestLineFrom(zone, content, date, target, i + 1, nearestLine, nearestDiff)

\* findNearestHeading: the candidate of the final line
NearestCandidate(file, finalLine) ==
  IF finalLine = Null THEN Null
  ELSE [file |-> file, headingLine |-> finalLine.int, habitsWithData |-> {}]

\* The first heading with a date, whatever the date
FirstHeadingOnly(zone, file, content, date) ==
  IF ParseIsoDate(date) = Null THEN Null
  ELSE NearestCandidate(file,
         IF \E k \in DOMAIN content : IsHeadingShape(content[k])
                                       /\ NormalizeIsoDate(content[k].heading) # Null
         THEN JsInt(CHOOSE k \in DOMAIN content :
                      /\ IsHeadingShape(content[k])
                      /\ NormalizeIsoDate(content[k].heading) # Null
                      /\ \A j \in 1..(k - 1) :
                           ~IsHeadingShape(content[j])
                           \/ NormalizeIsoDate(content[j].heading) = Null)
         ELSE Null)

\* findNearestHeading, given what cachedRead gave
FindNearestHeading(zone, file, content, date) ==
  IF ParseIsoDate(date) = Null THEN Null
  ELSE NearestCandidate(file,
         NearestLineFrom(zone, content, date, ParseIsoDate(date), 1, Null, Null))

\* The notes of the model have at most MaxContent lines: text, headings of the
\* days around the start of daylight saving in 2026 (the night to March 9th in
\* the model's zone), a heading of a date far away and one of no date.
MaxContent == 3
NearestAlphabet ==
  { BlankLine, Heading(2026, 3, 6), Heading(2026, 3, 7), Heading(2026, 3, 9),
    Heading(2026, 3, 10), Heading(2025, 12, 31), Heading(2026, 2, 30) }
NearestContents == UNION {[1..n -> NearestAlphabet] : n \in 0..MaxContent}
TargetDates == {IsoText(2026, 3, 8), IsoText(2026, 3, 9), IsoText(2026, 3, 7)}

InitNearest ==
  /\ timezone \in Timezones
  /\ rangeConfig = Null
  /\ basename = Null
  /\ rangeResult = Pending
  /\ nearestContent \in NearestContents
  /\ nearestDate \in TargetDates
  /\ nearestResult = Pending

\* pickCandidate calls findNearestHeading(file, date)
DoFindNearestHeading ==
  /\ nearestDate # Null
  /\ nearestResult = Pending
  /\ nearestResult' = FindNearestHeading(timezone, NotePath, nearestContent, nearestDate)
  /\ UNCHANGED <<nearestContent, nearestDate, rangeVars, parseVars, vaultVars, cacheVars,
                 scanVars, configVars, renderVars, callVars, pluginVars>>

NextNearest == DoFindNearestHeading

\* ---- findNearestHeading: the claims ----

\* The lines of the note that are headings of a date of the calendar.
DateHeadingLines == {k \in DOMAIN nearestContent : IsDateHeading(nearestContent[k])}

DayNumber(iso) == DaysFromCivil(iso.y, iso.m, iso.d)
DaysApart(a, b) == Abs(DayNumber(a) - DayNumber(b))

HeadingAt(k) == nearestContent[k].heading

\* C20: the lookup returns the line of a heading of the target date when the
\* note has one; otherwise the line of a date heading whose distance in days
\* from the target is the least among the date headings of the note; and
\* nothing iff the note has no date heading.
C20_NearestHeading ==
  nearestResult # Pending =>
    /\ nearestResult = Null <=> DateHeadingLines = {}
    /\ nearestResult # Null =>
         /\ nearestResult.file = NotePath
         /\ nearestResult.habitsWithData = {}
         /\ nearestResult.headingLine \in DateHeadingLines
         /\ IF \E k \in DateHeadingLines : HeadingAt(k) = nearestDate
            THEN HeadingAt(nearestResult.headingLine) = nearestDate
            ELSE \A k \in DateHeadingLines :
                   DaysApart(HeadingAt(nearestResult.headingLine), nearestDate)
                     <= DaysApart(HeadingAt(k), nearestDate)

\* No heading of the target date; the nearest heading is not the first one, and
\* a heading of no date stands above it.
C20_Witness ==
  /\ nearestResult # Pending /\ nearestResult # Null
  /\ HeadingAt(nearestResult.headingLine) # nearestDate
  /\ nearestResult.headingLine = 3
  /\ DateHeadingLines = {1, 3}

\* A heading of the target date below a nearer line.
C20_WitnessExact ==
  /\ nearestResult # Pending /\ nearestResult # Null
  /\ HeadingAt(nearestResult.headingLine) = nearestDate
  /\ nearestResult.headingLine = 2
  /\ 1 \in DateHeadingLines

\* Two headings one day from the target, the later of them nearer in time.
C20_WitnessDaylightSaving ==
  /\ nearestResult # Pending /\ nearestResult # Null
  /\ nearestDate = IsoText(2026, 3, 8)
  /\ HeadingAt(1) = IsoText(2026, 3, 7)
  /\ nearestResult.headingLine = 2
  /\ HeadingAt(2) = IsoText(2026, 3, 9)

(***************************************************************************)
(* Scans in progress at once.  A call of scan runs until it awaits: at the *)
(* await of cachedRead inside getParsedFile another call, a modification   *)
(* of a note, invalidatePath or clear may run.  A step of a call is what   *)
(* it does between two awaits.                                             *)
(***************************************************************************)

\* The calls of scan of the model, all for the note j/w and February 2026.
ScanCalls == {1, 2}
CallRange == ResolveRange("UTC", MonthInput.cfg, MonthInput.title).range

\* A call that has not begun
NewScan ==
  [pc |-> "start", files |-> <<>>, position |-> 0, content |-> Null,
   aggregates |-> EmptyMap, candidatesByDate |-> EmptyMap, habitsFound |-> {},
   used |-> <<>>, result |-> Pending]

\* scan, lines 34-39
ScanBegun(listed) ==
  [NewScan EXCEPT !.pc = "loop",
                  !.files = GetFilesForRange(listed, FolderNote, CallRange.type)]

\* scan, lines 44-86: what the loop does with the parse of one file
ScanFolded(call, path, parsedNow) ==
  [call EXCEPT
     !.pc = "loop",
     !.content = Null,
     !.position = @ + 1,
     !.candidatesByDate = RegisterCandidates(@, path, parsedNow.object, DateSet(CallRange.dates)),
     !.aggregates = FoldFile(@, parsedNow.object.valuesByDateHabit, DateSet(CallRange.dates)),
     !.habitsFound = @ \cup HabitsSeen(parsedNow.object.valuesByDateHabit,
                                       DateSet(CallRange.dates)),
     !.used = Append(@, [path |-> path, parsed |-> parsedNow])]

\* scan, lines 89-116
ScanReturned(call) ==
  [call EXCEPT !.pc = "done",
               !.result = [dates |-> CallRange.dates,
                           valuesByHabit |-> ValuesByHabit(call.aggregates),
                           habitsFound |-> call.habitsFound,
                           candidatesByDate |-> call.candidatesByDate,
                           scannedFiles |-> call.files]]

\* a rejection that returns what has been folded
ScanReturnedPartly(call) == [ScanReturned(call) EXCEPT !.pc = "failed"]

\* scan, line 42: the await of getParsedFile rejects, and scan with it
ScanRejected(call) == [call EXCEPT !.pc = "failed", !.result = Thrown("read")]

\* The file a call is at.
FileOf(call) == call.files[call.position + 1]

ScansOnly ==
  <<rangeVars, parseVars, scanVars, configVars, renderVars, nearestVars, pluginVars>>

\* A call begins; the calls are numbered as they begin.
BeginScan ==
  \E id \in ScanCalls :
    /\ scans[id].pc = "start"
    /\ \A earlier \in ScanCalls : earlier < id => scans[earlier].pc # "start"
    /\ scans' = [scans EXCEPT ![id] = ScanBegun(markdownFiles)]
    /\ UNCHANGED <<stores, unstored, vaultVars, cacheVars, ScansOnly>>

\* getParsedFile, lines 120-123: the entry is current and its parse is returned;
\* the loop goes on with it.
HitCache ==
  \E id \in ScanCalls :
    /\ scans[id].pc = "loop"
    /\ scans[id].position < Len(scans[id].files)
    /\ CacheHit(MapGet(cache, FileOf(scans[id]), Null), vaultFiles[FileOf(scans[id])].mtime)
    /\ scans' = [scans EXCEPT
                   ![id] = ScanFolded(@, FileOf(scans[id]), cache[FileOf(scans[id])].parsed)]
    /\ UNCHANGED <<stores, unstored, vaultVars, cacheVars, ScansOnly>>

\* getParsedFile, lines 120-125: no current entry; cachedRead is called and
\* awaited.
MissCache ==
  \E id \in ScanCalls :
    /\ scans[id].pc = "loop"
    /\ scans[id].position < Len(scans[id].files)
    /\ ~CacheHit(MapGet(cache, FileOf(scans[id]), Null), vaultFiles[FileOf(scans[id])].mtime)
    /\ scans' = [scans EXCEPT ![id].pc = "reading"]
    /\ unstored' = unstored \cup {FileOf(scans[id])}
    /\ UNCHANGED <<stores, vaultVars, cacheVars, ScansOnly>>

\* cachedRead gives the content the note has.
ReadContent ==
  \E id \in ScanCalls :
    /\ scans[id].pc = "reading"
    /\ scans' = [scans EXCEPT ![id].pc = "read",
                              ![id].content = List(vaultFiles[FileOf(scans[id])].content)]
    /\ UNCHANGED <<stores, unstored, vaultVars, cacheVars, ScansOnly>>

\* cachedRead rejects: getParsedFile and scan reject with it.
ReadFails ==
  \E id \in ScanCalls :
    /\ scans[id].pc = "reading"
    /\ scans' = [scans EXCEPT ![id] = ScanRejected(@)]
    /\ UNCHANGED <<stores, unstored, vaultVars, cacheVars, ScansOnly>>

\* A cache.set: the path, the mtime of the entry and which parse it holds.
SetOf(path, mtime, parsedNow) == [path |-> path, mtime |-> mtime, ref |-> parsedNow.ref]

\* getParsedFile, lines 126-128, given what it leaves, and the loop going on
\* with the parse
StoreAndFold(id, path, got) ==
  /\ cache' = got.cache
  /\ parseCount' = got.parseCount
  /\ scans' = [scans EXCEPT ![id] = ScanFolded(@, path, got.parsed)]
  /\ stores' = stores \cup {SetOf(path, vaultFiles[path].mtime, got.parsed)}
  /\ unstored' = unstored \ {path}
  /\ UNCHANGED <<invalidated, lastCall, vaultVars, ScansOnly>>

ParseAndStore ==
  \E id \in ScanCalls :
    /\ scans[id].pc = "read"
    /\ StoreAndFold(id, FileOf(scans[id]),
         StoreParsed(cache, FileOf(scans[id]), vaultFiles[FileOf(scans[id])].mtime,
                     Ref(parseCount + 1,
                         ParseMarkdownHabits(FileOf(scans[id]), scans[id].content.list)),
                     parseCount + 1))

\* scan returns.
ReturnScan ==
  \E id \in ScanCalls :
    /\ scans[id].pc = "loop"
    /\ scans[id].position = Len(scans[id].files)
    /\ scans' = [scans EXCEPT ![id] = ScanReturned(@)]
    /\ UNCHANGED <<stores, unstored, vaultVars, cacheVars, ScansOnly>>

\* invalidatePath and clear while calls are in progress
InvalidateDuringScans ==
  \E path \in DOMAIN vaultFiles :
    /\ cache' = InvalidatePath(cache, path)
    /\ UNCHANGED <<parseCount, invalidated, lastCall, vaultVars, callVars, ScansOnly>>

ClearDuringScans ==
  /\ cache' = Clear(cache)
  /\ UNCHANGED <<parseCount, invalidated, lastCall, vaultVars, callVars, ScansOnly>>

\* The notes are written at most MaxWrites times while the calls run.
MaxWrites == 1
RECURSIVE WritesTo(_)
WritesTo(paths) ==
  IF paths = {} THEN 0
  ELSE (vaultFiles[CHOOSE p \in paths : TRUE].mtime - 1)
       + WritesTo(paths \ {CHOOSE p \in paths : TRUE})

WriteDuringScans ==
  /\ WritesTo(DOMAIN vaultFiles) < MaxWrites
  /\ ModifyDocument

InitScans ==
  /\ markdownFiles = ListedOf(CachePaths)
  /\ vaultFiles = [path \in CachePaths |->
                     [mtime |-> 1, content |-> <<InRange, Says(Workout, Numeral(JsInt(20)))>>]]
  /\ cache = EmptyMap
  /\ parseCount = 0
  /\ invalidated = EmptyMap
  /\ lastCall = Null
  /\ scans = [id \in ScanCalls |-> NewScan]
  /\ stores = {}
  /\ unstored = {}

NextScans ==
  \/ BeginScan
  \/ HitCache
  \/ MissCache
  \/ ReadContent
  \/ ReadFails
  \/ ParseAndStore
  \/ ReturnScan
  \/ InvalidateDuringScans
  \/ ClearDuringScans
  \/ WriteDuringScans

(***************************************************************************)
(* The plugin (main.ts): the handlers of the vault's modify, delete and    *)
(* rename events, the timeout that refreshes the previews and onunload,    *)
(* with calls of scan in progress.  A handler runs from its beginning to   *)
(* its end; the callback of a timeout runs when the timeout expires.       *)
(* Obsidian calls the handlers registered with registerEvent only between  *)
(* onload and onunload, and runs the code block processor, which begins    *)
(* the scans, only then too.                                               *)
(***************************************************************************)

\* The files of the events: the two notes of the folder, a picture, a folder
\* and a note in a templates folder before and after it is renamed.
NoteFile(path) == [path |-> path, extension |-> "md"]
Picture == [path |-> <<"j", "/", "p">>, extension |-> "png"]
PictureRenamed == [path |-> <<"j", "/", "q">>, extension |-> "png"]
SubFolder == [path |-> <<"j", "/", "s">>, children |-> TRUE]

\* file instanceof TFile && file.extension === "md"
IsMarkdownTFile(file) == "extension" \in DOMAIN file /\ file.extension = "md"

\* a clearTimeout that leaves the timeout running
ClearTimeoutNever(pending, timer) == pending

\* window.clearTimeout(timer), on the timeouts that are pending
ClearTimeout(pending, timer) == IF timer # Null THEN pending \ {timer.int} ELSE pending

\* scheduleRefresh, lines 84-93: the pending timeout is cleared, a new one is
\* set and its id kept; setTimeout gives the ids 1, 2, ...
ScheduleRefresh ==
  /\ timerCount' = timerCount + 1
  /\ timeouts' = ClearTimeout(timeouts, refreshTimer) \cup {timerCount + 1}
  /\ refreshTimer' = JsInt(timerCount + 1)

\* invalidateIfMarkdown, lines 78-82
InvalidateIfMarkdown(entries, file) ==
  IF IsMarkdownTFile(file) THEN InvalidatePath(entries, file.path) ELSE entries

\* The vault has an event for a file, the handler of which schedules or not.
MaxEvents == 3
VaultEvent(kind, file) ==
  /\ loaded
  /\ eventCount < MaxEvents
  /\ eventCount' = eventCount + 1
  /\ unrefreshed' = unrefreshed + 1
  /\ lastEvent' = [kind |-> kind, file |-> file]

PluginOnly == <<rangeVars, parseVars, scanVars, configVars, renderVars, nearestVars>>

\* A note is written: its content and its mtime change, and the handler of
\* modify, lines 38-45, runs for it.
OnModifyNote ==
  \E path \in DOMAIN vaultFiles, content \in CacheDocuments :
    /\ VaultEvent("modify", NoteFile(path))
    /\ WritesTo(DOMAIN vaultFiles) < MaxWrites
    /\ vaultFiles[path].mtime < MaxMtime
    /\ vaultFiles' = [vaultFiles EXCEPT
                        ![path] = [mtime |-> @.mtime + 1, content |-> content]]
    /\ written' = [written EXCEPT ![path] = Append(@, content)]
    /\ cache' = InvalidateIfMarkdown(cache, NoteFile(path))
    /\ ScheduleRefresh
    /\ UNCHANGED <<loaded, refreshes, markdownFiles, parseCount, invalidated, lastCall,
                   callVars, PluginOnly>>

\* A file that is not a note is written: the handler of modify does nothing.
OnModifyOther ==
  /\ VaultEvent("modify", Picture)
  /\ ~IsMarkdownTFile(Picture)
  /\ UNCHANGED <<loaded, refreshTimer, timeouts, timerCount, refreshes, written, vaultVars,
                 cacheVars, callVars, PluginOnly>>

\* The files that are deleted: the other note of the folder, which leaves the
\* vault's list (a call that has listed it keeps its TFile), the picture, the
\* folder.
DeletedFiles == {NoteFile(FolderOther), Picture, SubFolder}

\* The handler of delete, lines 47-52
OnDelete ==
  \E file \in DeletedFiles :
    /\ VaultEvent("delete", file)
    /\ IsMarkdownTFile(file) => file.path \in Elements(markdownFiles)
    /\ markdownFiles' = ListedOf(Elements(markdownFiles) \ {file.path})
    /\ cache' = InvalidateIfMarkdown(cache, file)
    /\ ScheduleRefresh
    /\ UNCHANGED <<loaded, refreshes, written, vaultFiles, parseCount, invalidated,
                   lastCall, callVars, PluginOnly>>

\* The files that are renamed, with the path they had: the picture, and a
\* note of a templates folder, which no scan reads.
Renames ==
  { [file |-> PictureRenamed, oldPath |-> Picture.path],
    [file |-> NoteFile(TemplateNote), oldPath |-> RootTemplateNote] }

\* The handler of rename, lines 54-62
OnRename ==
  \E renamed \in Renames :
    /\ VaultEvent("rename", renamed.file)
    /\ cache' = InvalidatePath(InvalidateIfMarkdown(cache, renamed.file), renamed.oldPath)
    /\ ScheduleRefresh
    /\ UNCHANGED <<loaded, refreshes, written, vaultVars, parseCount, invalidated,
                   lastCall, callVars, PluginOnly>>

\* A pending timeout expires and its callback runs, lines 89-92: the marker is
\* cleared and the previews are refreshed.
TimerExpires ==
  \E id \in timeouts :
    /\ timeouts' = timeouts \ {id}
    /\ refreshTimer' = Null
    /\ refreshes' = refreshes + 1
    /\ unrefreshed' = 0
    /\ UNCHANGED <<loaded, timerCount, eventCount, lastEvent, written, vaultVars,
                   cacheVars, callVars, PluginOnly>>

\* onunload, lines 65-71; Obsidian takes the handlers off with it.
OnUnload ==
  /\ loaded
  /\ loaded' = FALSE
  /\ timeouts' = ClearTimeout(timeouts, refreshTimer)
  /\ refreshTimer' = Null
  /\ cache' = Clear(cache)
  /\ UNCHANGED <<timerCount, refreshes, eventCount, unrefreshed, lastEvent, written,
                 vaultVars, parseCount, invalidated, lastCall, callVars, PluginOnly>>

\* The code block processor begins a scan; at most MaxInProgress calls are in
\* progress at a time.
MaxInProgress == 1
ScansInProgress ==
  Cardinality({id \in ScanCalls : scans[id].pc \notin {"start", "done", "failed"}})
BeginScanOfBlock == loaded /\ ScansInProgress < MaxInProgress /\ BeginScan

\* After onload, with the two notes as they are and nothing cached
InitPlugin ==
  /\ InitScans
  /\ loaded = TRUE
  /\ refreshTimer = Null
  /\ timeouts = {}
  /\ timerCount = 0
  /\ refreshes = 0
  /\ eventCount = 0
  /\ unrefreshed = 0
  /\ lastEvent = Null
  /\ written = [path \in DOMAIN vaultFiles |-> <<vaultFiles[path].content>>]

NextPlugin ==
  \/ BeginScanOfBlock
  \/ HitCache
  \/ MissCache
  \/ ReadContent
  \/ ReadFails
  \/ ParseAndStore
  \/ ReturnScan
  \/ OnModifyNote
  \/ OnModifyOther
  \/ OnDelete
  \/ OnRename
  \/ TimerExpires
  \/ OnUnload

\* After onload and the first rendering of a block, the scan of which has
\* begun; no other block is rendered.
InitRefresh ==
  /\ markdownFiles = ListedOf(CachePaths)
  /\ vaultFiles = [path \in CachePaths |->
                     [mtime |-> 1, content |-> <<InRange, Says(Workout, Numeral(JsInt(20)))>>]]
  /\ cache = EmptyMap
  /\ parseCount = 0
  /\ invalidated = EmptyMap
  /\ lastCall = Null
  /\ scans = [id \in ScanCalls |-> IF id = 1 THEN ScanBegun(markdownFiles) ELSE NewScan]
  /\ stores = {}
  /\ unstored = {}
  /\ loaded = TRUE
  /\ refreshTimer = Null
  /\ timeouts = {}
  /\ timerCount = 0
  /\ refreshes = 0
  /\ eventCount = 0
  /\ unrefreshed = 0
  /\ lastEvent = Null
  /\ written = [path \in DOMAIN vaultFiles |-> <<vaultFiles[path].content>>]

NextRefresh ==
  \/ MissCache
  \/ ReadContent
  \/ ReadFails
  \/ ParseAndStore
  \/ ReturnScan
  \/ OnModifyNote
  \/ OnModifyOther
  \/ OnDelete
  \/ OnRename
  \/ TimerExpires
  \/ OnUnload

(***************************************************************************)
(* render: the claims.                                                     *)
(***************************************************************************)

Decoded == decoded # Pending /\ decoded.ok
RangeResolved == rangeResult # Pending /\ rangeResult.ok
RangeRefused == rangeResult # Pending /\ ~rangeResult.ok

\* What the block gives range.fromTitle, Undefined when it gives nothing.
ConfiguredFromTitle == Member(Member(decoded.value, "range"), "fromTitle")

\* resolveRange was called for a week.
WeekResolution == rangeResult # Pending /\ rangeConfig.type = Str("week")

FromTitleRefused ==
  /\ rangeResult = Failure(<<[msg |-> "week range requires range.fromTitle=true"]>>)
  /\ "range" \notin DOMAIN rangeResult

\* A resolved week begins and ends on the dates of the title.
WeekOfTheTitle ==
  RangeResolved =>
    /\ basename.match
    /\ rangeResult.range.startDate = NormalizeIsoDate(basename.s)
    /\ rangeResult.range.endDate = NormalizeIsoDate(basename.e)

C11_WitnessAbsent ==
  /\ WeekResolution
  /\ IsUndefined(ConfiguredFromTitle)
  /\ RangeResolved
  /\ Len(rangeResult.range.dates) = 7

\* ---- the order of a render ----

Normalization == configResult # Pending
NormalizationThrew == "threw" \in DOMAIN configResult
NormalizedOk == "ok" \in DOMAIN configResult /\ configResult.ok

\* The scan of the call has been started.
ScanStarted == currentFile # <<>> \/ scanPc # "start"

\* Nothing has been asked of the scanner: no scan, no read, the cache as it was.
ScannerUntouched ==
  /\ ~ScanStarted
  /\ scanResult = Pending
  /\ lastCall = Null
  /\ parseCount = 0
  /\ cache = EmptyMap

\* The call is over.
RenderOver == renderPc \in {"done", "rejected"}

\* The steps are taken in order, each after the one before it succeeded, and
\* the scan is started with what they gave.
StepsInOrder ==
  /\ Normalization => Decoded /\ rawConfig = decoded.value
  /\ rangeResult # Pending => NormalizedOk /\ rangeConfig = configResult.config.range
  /\ ScanStarted =>
       /\ RangeResolved
       /\ range = rangeResult.range
       /\ currentFile = sourceFile.path

\* The errors of the step that failed, if one did.
DecodingFailed == decoded # Pending /\ ~decoded.ok
NormalizationRefused == "ok" \in DOMAIN configResult /\ ~configResult.ok

FailureShown ==
  /\ DecodingFailed => shown = ErrorBox(<<decoded.error>>)
  /\ NormalizationRefused => shown = ErrorBox(configResult.errors)
  /\ RangeRefused => shown = ErrorBox(rangeResult.errors)

\* C16: a scan is started only after decoding, normalization and range
\* resolution have succeeded, in that order; when one of them fails the call
\* ends with its errors shown as they are, no scan is run, no document is
\* read and the cache is as it was.
C16_ScanOnlyAfterValidation ==
  /\ StepsInOrder
  /\ (DecodingFailed \/ (Normalization /\ ~NormalizedOk) \/ RangeRefused) =>
       /\ RenderOver
       /\ ScannerUntouched
       /\ FailureShown
       /\ NormalizationThrew => shown = ErrorBox(<<[msg |-> configResult.threw]>>)

\* The same for the calls in which normalizeConfig returns.
ScanOnlyAfterValidationUnlessThrown ==
  /\ StepsInOrder
  /\ (DecodingFailed \/ NormalizationRefused \/ RangeRefused) =>
       /\ renderPc = "done"
       /\ ScannerUntouched
       /\ FailureShown
  /\ NormalizationThrew => renderPc = "rejected" /\ ScannerUntouched /\ shown = Pending

\* A call that went through the three steps and has read a note; calls that
\* ended in each of the three steps.
ScanAfterValidation == ScanStarted /\ parseCount > 0 /\ renderPc = "scan"
EndedInDecoding == DecodingFailed /\ renderPc = "done"
EndedInNormalization ==
  NormalizationRefused /\ renderPc = "done" /\ Len(configResult.errors) = 2
EndedInRangeResolution == RangeRefused /\ renderPc = "done"

(***************************************************************************)
(* The candidates of a scan: the claims.                                   *)
(***************************************************************************)

\* The notes the loop has been through, in the order of the loop.
ScannedFiles == SubSeq(files, 1, position)

ContentOf(path) == vaultFiles[path].content

\* The line numbers of the headings of `date` in a note.
HeadingLinesIn(path, date) ==
  {k \in DOMAIN ContentOf(path) :
     IsDateHeading(ContentOf(path)[k]) /\ ContentOf(path)[k].heading = date}

\* The habits with a value in a note on a date.
HabitsWithDataIn(path, date) ==
  DOMAIN MapGet(ParseMarkdownHabits(path, ContentOf(path)).valuesByDateHabit, date, EmptyMap)

\* The dates with a heading in a note.
DatesHeadedIn(path) ==
  {ContentOf(path)[k].heading : k \in {n \in DOMAIN ContentOf(path) : IsDateHeading(ContentOf(path)[n])}}

\* The scanned notes with a heading of `date`, in the order of the loop.
NotesHeaded(date) ==
  LET IsHeaded(path) == date \in DatesHeadedIn(path)
  IN  SelectSeq(ScannedFiles, IsHeaded)

ExpectedCandidate(path, date) ==
  [file |-> path,
   headingLine |-> Lowest(HeadingLinesIn(path, date)),
   habitsWithData |-> HabitsWithDataIn(path, date)]

ExpectedCandidatesOf(notes, date) ==
  [i \in 1..Len(notes) |-> ExpectedCandidate(notes[i], date)]

\* The dates of the range with a heading in a scanned note.
HeadedDatesInRange ==
  {date \in UNION {DatesHeadedIn(files[i]) : i \in 1..position} : date \in DateSet(range.dates)}

\* C19: for every scanned note and every date of the range with a heading in
\* the note there is exactly one candidate of the note under the date, with the
\* line of the first heading of the date and exactly the habits that have a
\* value in the note on the date; the candidates of a date are in the order of
\* the loop; there is no candidate under a date outside the range or without a
\* heading.
C19_CandidatesPerHeadedDate ==
  scanPc # "start" =>
    /\ DOMAIN candidatesByDate = HeadedDatesInRange
    /\ \A date \in DOMAIN candidatesByDate :
         candidatesByDate[date] = ExpectedCandidatesOf(NotesHeaded(date), date)
    /\ scanPc = "done" => scanResult.candidatesByDate = candidatesByDate

\* A finished scan of two notes with a heading of the same date, one of them
\* with the heading twice and the other with a heading of a date outside the
\* range above it.
C19_Witness ==
  /\ scanPc = "done"
  /\ \E date \in DOMAIN candidatesByDate :
       /\ Len(candidatesByDate[date]) >= 2
       /\ \E i \in DOMAIN candidatesByDate[date] :
            Cardinality(HeadingLinesIn(candidatesByDate[date][i].file, date)) = 2
       /\ \E i \in DOMAIN candidatesByDate[date] : candidatesByDate[date][i].headingLine = 3
  /\ \E path \in Elements(files) : HeadingLinesIn(path, OutOfRange.heading) # {}

(***************************************************************************)
(* Scans in progress at once: the claims.                                  *)
(***************************************************************************)

\* The contents a note of the model can have had.
VersionsOfNotes == CacheDocuments \cup {vaultFiles[path].content : path \in DOMAIN vaultFiles}

\* Two parses hold the same.
SameParse(a, b) ==
  /\ a.file = b.file
  /\ a.headingLinesByDate = b.headingLinesByDate
  /\ DOMAIN a.valuesByDateHabit = DOMAIN b.valuesByDateHabit
  /\ \A date \in DOMAIN a.valuesByDateHabit :
       /\ DOMAIN a.valuesByDateHabit[date] = DOMAIN b.valuesByDateHabit[date]
       /\ \A habit \in DOMAIN a.valuesByDateHabit[date] :
            SameValue(a.valuesByDateHabit[date][habit], b.valuesByDateHabit[date][habit])

\* A complete ParsedFileData of the note: what one parse of one of its
\* contents gives.
IsParseOfOneVersion(path, object) ==
  /\ DOMAIN object = {"file", "headingLinesByDate", "valuesByDateHabit"}
  /\ \E content \in VersionsOfNotes : SameParse(object, ParseMarkdownHabits(path, content))

\* The parses the calls have gone on with: the places <<call, position>> of used.
UsedPlaces == UNION {{<<id, i>> : i \in DOMAIN scans[id].used} : id \in DOMAIN scans}
UsedAt(place) == scans[place[1]].used[place[2]]

\* C17: whatever the other calls, invalidatePath, clear and the writes to the
\* notes do in between, every parse a scan goes on with for a note is a complete
\* ParsedFileData made by one parse of one content of that note, and every entry
\* the cache holds at any moment is a token with the parse that one cache.set
\* stored together with it.
C17_WholeParsesAndEntries ==
  /\ \A u \in UsedPlaces :
       /\ IsParseOfOneVersion(UsedAt(u).path, UsedAt(u).parsed.object)
       /\ \A v \in UsedPlaces :
            UsedAt(v).parsed.ref = UsedAt(u).parsed.ref =>
              /\ UsedAt(v).path = UsedAt(u).path
              /\ SameParse(UsedAt(v).parsed.object, UsedAt(u).parsed.object)
  /\ \A path \in DOMAIN cache :
       /\ DOMAIN cache[path] = {"mtime", "parsed"}
       /\ IsParseOfOneVersion(path, cache[path].parsed.object)
       /\ SetOf(path, cache[path].mtime, cache[path].parsed) \in stores

InProgress(call) == call.pc \in {"loop", "reading", "read"}

\* A scan has gone on with the parse of a note whose entry has been taken away
\* since, and waits for the next note to be read while the other call waits for
\* a read too, and a note has been stored twice.
C17_Witness ==
  \E id \in DOMAIN scans, other \in DOMAIN scans :
    /\ id # other
    /\ scans[id].pc = "reading" /\ scans[other].pc = "reading"
    /\ Len(scans[id].used) = 1
    /\ scans[id].used[1].path \notin DOMAIN cache
    /\ \E s, t \in stores : s.path = t.path /\ s.ref # t.ref

\* Whether a result is what scan returns.
IsScanResult(result) == "scannedFiles" \in DOMAIN result

ReadFailedFor(id) == scans[id].pc = "reading" /\ scans'[id].pc = "failed"

\* A read that fails leaves the cache as it is, and the call rejected.
FailureStoresNothing ==
  \A id \in DOMAIN scans :
    ReadFailedFor(id) =>
      /\ cache' = cache
      /\ stores' = stores
      /\ scans'[id].result = Thrown("read")

\* A call that failed has returned no ScanResult, whatever it had folded; and
\* a path that was read for and has not been stored since has no current entry:
\* getParsedFile reads for it.
FailedCallsAndUnstoredPaths ==
  /\ \A id \in DOMAIN scans :
       /\ scans[id].pc = "failed" => ~IsScanResult(scans[id].result)
       /\ IsScanResult(scans[id].result) => scans[id].pc = "done"
  /\ \A path \in unstored : ~CacheHit(MapGet(cache, path, Null), vaultFiles[path].mtime)

\* C18: when the read of a note fails in getParsedFile, no entry is set for the
\* path, the scan fails as a whole and returns no ScanResult made of the notes
\* it had gone through, and the next getParsedFile for the note reads again.
C18_FailedReadLeavesNoTrace ==
  [](FailedCallsAndUnstoredPaths) /\ [][FailureStoresNothing]_vars

\* A call failed on its second note, after it had folded the first; the other
\* call is reading the same note again and the cache has no entry for it.
C18_Witness ==
  \E id \in DOMAIN scans, other \in DOMAIN scans :
    /\ scans[id].pc = "failed"
    /\ Len(scans[id].used) = 1
    /\ scans[other].pc = "reading"
    /\ FileOf(scans[other]) = FileOf(scans[id])
    /\ FileOf(scans[id]) \notin DOMAIN cache

(***************************************************************************)
(* The parser: headings that name no day of the calendar.                  *)
(***************************************************************************)

\* The lines with the shape of a date heading whose date is no day of the
\* calendar.
IsInvalidHeading(line) == IsHeadingShape(line) /\ ~IsCalendarDate(line.heading)
InvalidHeadings == {k \in 1..Len(lines) : IsInvalidHeading(lines[k])}

\* Such a line is under no date of headingLinesByDate, its text is no date of
\* the parse, and every token read so far is credited to the date of the
\* nearest heading of a calendar day above it (Sections), to none without one.
InvalidHeadingsStartNoSection ==
  /\ \A k \in InvalidHeadings :
       /\ lines[k].heading \notin DOMAIN headingLinesByDate \cup DOMAIN accumulators
       /\ \A date \in DOMAIN headingLinesByDate : k \notin Elements(headingLinesByDate[date])
  /\ parsed = Pending => AllCredited(Sections)
  /\ parsed # Pending =>
       \A k \in InvalidHeadings : lines[k].heading \notin DOMAIN parsed.valuesByDateHabit

\* The loop has read such a line in this step.
ReadsInvalidHeading == Len(lines') = Len(lines) + 1 /\ IsInvalidHeading(lines'[Len(lines')])

\* The step leaves the active date, the headings and the accumulators as
\* they are.
InvalidHeadingChangesNothing ==
  ReadsInvalidHeading =>
    /\ activeDate' = activeDate
    /\ headingLinesByDate' = headingLinesByDate
    /\ accumulators' = accumulators

\* C22: a line with the shape of a date heading and a date that is no day of
\* the calendar starts no section: it is not recorded in headingLinesByDate, it
\* leaves the active date as it is, and what stands on it and on the lines
\* after it is credited to the date that was active before it, or to no date
\* when there was none.
C22_InvalidHeadingStartsNoSection ==
  [](InvalidHeadingsStartNoSection) /\ [][InvalidHeadingChangesNothing]_vars

\* A heading of 2026.02.30 stands between a date heading and a line with a
\* numeric token, which is credited to the date of the heading above.
C22_Witness ==
  /\ Len(lines) = 3
  /\ IsDateHeading(lines[1])
  /\ IsInvalidHeading(lines[2])
  /\ NumericTokens(lines[1].heading, Workout) = {<<3, 1>>}
  /\ activeDate = lines[1].heading
  /\ DOMAIN headingLinesByDate = {lines[1].heading}
  /\ accumulators[lines[1].heading][Workout].hasNumeric

\* The same heading stands first, and the token below it is credited to no date.
C22_WitnessNoDate ==
  /\ Len(lines) = 2
  /\ IsInvalidHeading(lines[1])
  /\ lines[2].tokens # <<>>
  /\ activeDate = Null
  /\ accumulators = EmptyMap
  /\ headingLinesByDate = EmptyMap

(***************************************************************************)
(* The plugin: the claims.                                                 *)
(***************************************************************************)

\* The content a note had when its mtime was the token.
ContentAt(path, token) == written[path][token]

\* The entry of a path holds the parse of the content of its token.
EntryOfItsToken(path) ==
  /\ cache[path].mtime \in DOMAIN written[path]
  /\ SameParse(cache[path].parsed.object,
               ParseMarkdownHabits(path, ContentAt(path, cache[path].mtime)))

\* C21: however the writes of the notes, each with its modify handler, fall
\* between the steps of the scans in progress, the parse of every entry the
\* cache holds is the parse of the content the note had at the mtime of the
\* entry, so that an entry of the current mtime holds the parse of the current
\* content.
C21_EntryIsParseOfItsToken == \A path \in DOMAIN cache : EntryOfItsToken(path)

\* In every state an entry has the mtime its note has now: the handler of
\* modify takes away the entry of a note that is written.
EntriesAreCurrent == \A path \in DOMAIN cache : cache[path].mtime = vaultFiles[path].mtime

\* A later call has hit on an entry of the current mtime and gone on with a
\* parse that is not the parse of the note's content.
C21_StaleParseReturned ==
  \E id \in DOMAIN scans, other \in DOMAIN scans, i \in 1..2 :
    /\ id # other
    /\ i \in DOMAIN scans[id].used /\ i \in DOMAIN scans[other].used
    /\ scans[id].used[i].parsed.ref = scans[other].used[i].parsed.ref
    /\ scans[id].used[i].path \in DOMAIN cache
    /\ cache[scans[id].used[i].path].parsed.ref = scans[id].used[i].parsed.ref
    /\ cache[scans[id].used[i].path].mtime = vaultFiles[scans[id].used[i].path].mtime
    /\ ~EntryOfItsToken(scans[id].used[i].path)

\* ---- the refresh timeout ----

\* The timeouts of the window that are pending are the one the marker names,
\* or none when the marker is null.
OneTimerPending ==
  /\ Cardinality(timeouts) <= 1
  /\ timeouts = (IF refreshTimer = Null THEN {} ELSE {refreshTimer.int})

\* The step is a vault event.
IsEvent == eventCount' = eventCount + 1

\* The step clears what was pending and sets a new timeout.
Rescheduled ==
  /\ timerCount' = timerCount + 1
  /\ refreshTimer' = JsInt(timerCount')
  /\ timeouts' = {timerCount'}

\* The step is the expiry of a pending timeout.
IsExpiry == \E id \in timeouts : id \notin timeouts' /\ loaded' = loaded /\ ~IsEvent

\* The previews are refreshed once by each timeout that expires, which clears
\* the marker, and by nothing else.
RefreshOnExpiry ==
  /\ IsExpiry => refreshes' = refreshes + 1 /\ refreshTimer' = Null /\ timeouts' = {}
  /\ ~IsExpiry => refreshes' = refreshes

\* After onunload no timeout is pending and the marker is null.
NothingPendingAfterUnload == ~loaded => timeouts = {} /\ refreshTimer = Null
NoRefreshAfterUnload == ~loaded => refreshes' = refreshes /\ ~loaded'

\* There are events the previews have not been refreshed after.
Unrefreshed == loaded /\ unrefreshed > 0
RefreshedOrUnloaded == unrefreshed = 0 \/ ~loaded

Schedules(event) == event.kind = "modify" => IsMarkdownTFile(event.file)

\* A getParsedFile awaits its read: it stores its entry when the read is over.
ReadsInProgress == {id \in DOMAIN scans : scans[id].pc \in {"reading", "read"}}

\* After onunload the cache holds only what the calls have stored that awaited
\* their read when it ran; without such a call it is empty.
OnlyAwaitedStoresAfterUnload ==
  /\ loaded /\ ~loaded' => cache' = EmptyMap
  /\ ~loaded =>
       /\ DOMAIN cache' \subseteq DOMAIN cache \cup {FileOf(scans[id]) : id \in ReadsInProgress}
       /\ cache' # cache => \E id \in ReadsInProgress : scans'[id].pc \notin {"reading", "read"}

C23_WitnessRefreshed ==
  /\ eventCount = 3 /\ timerCount = 3
  /\ refreshes = 1 /\ unrefreshed = 0
  /\ refreshTimer = Null /\ timeouts = {}

\* onunload has cleared a pending timeout, and a getParsedFile that awaited
\* its read has put an entry into the cleared cache.
C23_WitnessUnloaded ==
  /\ ~loaded
  /\ timerCount > refreshes
  /\ timeouts = {}
  /\ cache # EmptyMap

(***************************************************************************)

\* resolveRange applied to a normalized range configuration and a note title
StartRange == InitRange /\ IdleParse /\ IdleScanner /\ IdleOthers
SpecRange == StartRange /\ [][DoResolveRange]_vars

\* parseMarkdownHabits reading a content line by line
StartParse == InitParse /\ IdleRange /\ IdleScanner /\ IdleOthers
SpecParse == StartParse /\ [][NextParse]_vars

\* the file selection of a scan
StartFiles == InitFiles /\ IdleCache /\ IdleRange /\ IdleParse /\ IdleOthers
SpecFiles == StartFiles /\ [][ScanBegin]_vars

\* a whole scan, one file at a time
StartScan == InitScan /\ IdleCache /\ IdleRange /\ IdleParse /\ IdleOthers
SpecScan == StartScan /\ [][NextScan]_vars

\* the parse cache under calls and modifications in any order
StartCache == InitCache /\ IdleScan /\ IdleRange /\ IdleParse /\ IdleOthers
SpecCache == StartCache /\ [][NextCache]_vars

\* one call of render
StartRender == InitRender /\ IdleConfig /\ IdleCache /\ IdleScan /\ IdleParse /\ IdleLater
SpecRender == StartRender /\ [][NextRender]_vars

\* calls of scan in progress at once, with the notes and the cache changing
StartScans ==
  /\ InitScans
  /\ IdleScan /\ IdleRange /\ IdleParse /\ IdleConfig /\ IdleRender /\ IdleNearest /\ IdlePlugin
SpecScans == StartScans /\ [][NextScans]_vars

\* the plugin's handlers, its timeout and onunload, with scans one after the
\* other
StartPlugin ==
  /\ InitPlugin
  /\ IdleScan /\ IdleRange /\ IdleParse /\ IdleConfig /\ IdleRender /\ IdleNearest
SpecPlugin == StartPlugin /\ [][NextPlugin]_vars

\* the handlers, the timeout and onunload beside one call of scan; a timeout
\* that is pending and is not cleared expires
StartRefresh ==
  /\ InitRefresh
  /\ IdleScan /\ IdleRange /\ IdleParse /\ IdleConfig /\ IdleRender /\ IdleNearest
SpecRefresh == StartRefresh /\ [][NextRefresh]_vars /\ WF_vars(TimerExpires)

\* one call of findNearestHeading
StartNearest ==
  /\ InitNearest
  /\ IdleConfig /\ IdleRender /\ IdleParse /\ IdleScanner /\ IdleScans /\ IdlePlugin
SpecNearest == StartNearest /\ [][NextNearest]_vars

\* normalizeConfig and resolveNumericColor
StartConfig == InitConfig /\ IdleRender /\ IdleRange /\ IdleParse /\ IdleScanner /\ IdleLater
SpecConfig == StartConfig /\ [][NextConfig]_vars

====
